---- MODULE Spec2Model ----
(***************************************************************************)
(* Room session orchestrator of studybreak-trivia (src/server.js, the      *)
(* second, complete copy of the server that starts at line 876): the room  *)
(* registry, the Study/Break timer and the trivia session controller.      *)
(*                                                                         *)
(* Time is counted in whole seconds.  Every scheduled callback (setInterval*)
(* setTimeout, a pending await) is an entry of `tasks` with the seconds    *)
(* left until it is due; Tick lets one second pass and is enabled only     *)
(* when no due callback is waiting, so callbacks run in the second they    *)
(* are due, in any order within that second.  Date.now() is not stored:    *)
(* breakEndTime holds the seconds left until the deadline, never below 0   *)
(* (every use in the source clamps at 0 or tests `now >= breakEndTime`).   *)
(***************************************************************************)
EXTENDS Integers, Sequences, FiniteSets, TLC

VARIABLES
  activeRooms,   \* server.js:934  roomId -> room record, or NoRoom
  connected,     \* socket -> "new" | "open" | "closed" (socket.io connection)
  tasks,         \* scheduled callbacks: intervals, timeouts, pending awaits
  events,        \* what the last step emitted (io.to(roomId).emit / socket.emit)
  asked,         \* roomId -> ids of the new-question events since the Break began
  resolved,      \* roomId -> answers buffered at each question-ended since then
  control        \* the timer control of the last step and what became of it, or "none"

vars == <<activeRooms, connected, tasks, events, asked, resolved, control>>

---------------------------------------------------------------------------
(* Bounds of the model and the inputs the environment draws from *)

MaxParticipants == 3
MaxChains == 2
MaxPending == 2
MaxScore == 100
MaxCallbacks == 3

RoomIds == {"R1", "R2"}
Sockets == {"s1", "s2", "s3"}

\* activeRooms[roomId] of an id that is not registered (undefined)
NoRoom == [id |-> "undefined"]
NULL == "null"
\* breakEndTime: null (no deadline was ever set)
NoDeadline == -1

---------------------------------------------------------------------------
(* Small helpers *)

Max(a, b) == IF a >= b THEN a ELSE b

Range(f) == {f[i] : i \in DOMAIN f}

RECURSIVE SumSeq(_)
SumSeq(s) == IF s = <<>> THEN 0 ELSE Head(s) + SumSeq(Tail(s))

\* participants.findIndex(p => p.id === id): the first index of an entry with
\* the id, 0 if there is none
FindIndex(ps, id) ==
  IF \E i \in DOMAIN ps : ps[i].id = id
  THEN CHOOSE i \in DOMAIN ps : ps[i].id = id /\ \A j \in 1..(i - 1) : ps[j].id # id
  ELSE 0

\* Array.prototype.splice(i, 1)
RemoveAt(s, i) == SubSeq(s, 1, i - 1) \o SubSeq(s, i + 1, Len(s))

---------------------------------------------------------------------------
(* IEEE-754 double arithmetic on positive numbers, as JavaScript's `/` and *)
(* `*` compute it.  A double is [bits, exp]: a significand of Mantissa     *)
(* bits, most significant first and leading bit 1, and the exponent of     *)
(* that leading bit: the value is bits * 2^(exp - (Mantissa - 1)).         *)

Mantissa == 53

\* n / d brought to 1 <= n / d < 2 by doubling one side; k counts the doublings
RECURSIVE Normalised(_, _, _)
Normalised(n, d, k) ==
  IF n < d THEN Normalised(2 * n, d, k - 1)
  ELSE IF n >= 2 * d THEN Normalised(n, 2 * d, k + 1)
  ELSE [n |-> n, d |-> d, k |-> k]

\* the next count binary digits of r / d (r < d), and what is left of r;
\* the digits are produced half by half to keep the nesting shallow
RECURSIVE QuotientBits(_, _, _)
QuotientBits(r, d, count) ==
  IF count = 0 THEN [bits |-> <<>>, r |-> r]
  ELSE IF count = 1
  THEN LET b == IF 2 * r >= d THEN 1 ELSE 0
       IN [bits |-> <<b>>, r |-> 2 * r - b * d]
  ELSE LET first == QuotientBits(r, d, count \div 2)
           second == QuotientBits(first.r, d, count - count \div 2)
       IN [bits |-> first.bits \o second.bits, r |-> second.r]

\* bits + 1; one digit longer when every digit was 1
Successor(bits) ==
  LET zeros == {i \in DOMAIN bits : bits[i] = 0} IN
  IF zeros = {} THEN <<1>> \o [i \in DOMAIN bits |-> 0]
  ELSE LET last == CHOOSE i \in zeros : \A j \in zeros : j <= i
       IN [i \in DOMAIN bits |-> IF i < last THEN bits[i] ELSE IF i = last THEN 1 ELSE 0]

\* round to nearest, ties to even: bits is an exact significand with leading
\* bit 1 of exponent exp, sticky says that something non-zero lies below it
RoundToDouble(bits, exp, sticky) ==
  IF Len(bits) <= Mantissa
  THEN [bits |-> bits \o [i \in 1..(Mantissa - Len(bits)) |-> 0], exp |-> exp]
  ELSE LET kept == SubSeq(bits, 1, Mantissa)
           guard == bits[Mantissa + 1]
           below == sticky \/ \E i \in (Mantissa + 2)..Len(bits) : bits[i] = 1
           up == guard = 1 /\ (below \/ kept[Mantissa] = 1)
           next == Successor(kept)
       IN IF ~up THEN [bits |-> kept, exp |-> exp]
          ELSE IF Len(next) > Mantissa
          THEN [bits |-> SubSeq(next, 1, Mantissa), exp |-> exp + 1]
          ELSE [bits |-> next, exp |-> exp]

\* n / d for integers n, d > 0
DoubleQuotient(n, d) ==
  LET nd == Normalised(n, d, 0)
      q == QuotientBits(nd.n - nd.d, nd.d, Mantissa)
  IN RoundToDouble(<<1>> \o q.bits, nd.k, q.r # 0)

\* the binary digits of n > 0, none for 0
RECURSIVE Binary(_)
Binary(n) == IF n = 0 THEN <<>> ELSE Binary(n \div 2) \o <<n % 2>>

\* bits * t + carry for a small integer t > 0, exactly: the digits in the
\* places of bits, and what is carried out of them
RECURSIVE TimesSmall(_, _, _)
TimesSmall(bits, t, carry) ==
  IF bits = <<>> THEN [bits |-> <<>>, carry |-> carry]
  ELSE IF Len(bits) = 1
  THEN LET v == bits[1] * t + carry
       IN [bits |-> <<v % 2>>, carry |-> v \div 2]
  ELSE LET half == Len(bits) \div 2
           low == TimesSmall(SubSeq(bits, half + 1, Len(bits)), t, carry)
           high == TimesSmall(SubSeq(bits, 1, half), t, low.carry)
       IN IF low.carry = 0 /\ t = 1 THEN [bits |-> bits, carry |-> 0]
          ELSE [bits |-> high.bits \o low.bits, carry |-> high.carry]

\* t * x for an integer t > 0 and a double x
DoubleTimes(t, x) ==
  LET times == TimesSmall(x.bits, t, 0)
      product == Binary(times.carry) \o times.bits
  IN RoundToDouble(product, x.exp + (Len(product) - Mantissa), FALSE)

RECURSIVE BitsValue(_)
BitsValue(bits) ==
  IF bits = <<>> THEN 0
  ELSE IF Len(bits) = 1 THEN bits[1]
  ELSE LET half == Len(bits) \div 2
       IN BitsValue(SubSeq(bits, 1, half)) * 2 ^ (Len(bits) - half)
          + BitsValue(SubSeq(bits, half + 1, Len(bits)))

\* Math.floor and Math.ceil of a double x > 0 below 2^31
DoubleFloor(x) ==
  IF x.exp < 0 THEN 0 ELSE BitsValue(SubSeq(x.bits, 1, x.exp + 1))

DoubleCeil(x) ==
  IF x.exp < 0 THEN 1
  ELSE DoubleFloor(x)
       + (IF \E i \in (x.exp + 2)..Mantissa : x.bits[i] = 1 THEN 1 ELSE 0)

---------------------------------------------------------------------------
(* The step context: handlers are composed as functions on                 *)
(* [ar: activeRooms, tk: tasks, ev: events emitted so far].                *)

Ctx == [ar |-> activeRooms, tk |-> tasks, ev |-> <<>>]

Emit(c, e) == [c EXCEPT !.ev = Append(@, e)]

Ev(type, roomId, val) == [type |-> type, room |-> roomId, val |-> val]

SetRoom(c, roomId, room) == [c EXCEPT !.ar[roomId] = room]

Task(kind, roomId, left, held, qt, arg) ==
  [kind |-> kind, room |-> roomId, left |-> left, held |-> held, qt |-> qt, arg |-> arg]

\* clearInterval(room.<field>): cancels the one interval the field refers to
ClearHeld(tk, kind, roomId) ==
  SelectSeq(tk, LAMBDA t : ~(t.kind = kind /\ t.room = roomId /\ t.held))

\* room.<field> = <something else>: the interval it referred to is no longer held
Unhold(tk, kind, roomId) ==
  [i \in DOMAIN tk |->
     IF tk[i].kind = kind /\ tk[i].room = roomId THEN [tk[i] EXCEPT !.held = FALSE]
     ELSE tk[i]]

\* the ids of the questions the step has announced to the room
Announced(c, roomId) ==
  LET sent == SelectSeq(c.ev, LAMBDA e : e.type = "new-question" /\ e.room = roomId)
  IN [i \in DOMAIN sent |-> sent[i].val.id]

BreakBegins(c, roomId) ==
  \E i \in DOMAIN c.ev :
    c.ev[i].type = "mode-changed" /\ c.ev[i].room = roomId /\ c.ev[i].val = "trivia"

\* the step has revealed the answer of a question of the room
Revealed(c, roomId) ==
  \E i \in DOMAIN c.ev : c.ev[i].type = "question-ended" /\ c.ev[i].room = roomId

Settle(c) ==
  /\ activeRooms' = c.ar
  /\ tasks' = c.tk
  /\ events' = c.ev
  /\ asked' = [r \in RoomIds |->
                 IF c.ar[r] = NoRoom \/ BreakBegins(c, r) THEN <<>>
                 ELSE asked[r] \o Announced(c, r)]
  /\ resolved' = [r \in RoomIds |->
                    IF c.ar[r] = NoRoom \/ BreakBegins(c, r) THEN <<>>
                    ELSE IF Revealed(c, r)
                    THEN Append(resolved[r], Len(activeRooms[r].pendingAnswers))
                    ELSE resolved[r]]

\* a handler or callback returns with the state c
Commit(c) == Settle(c) /\ control' = "none"

---------------------------------------------------------------------------
(* Room registry *)

\* create-room: the room record as constructed
NewRoom(s, roomId, playTrivia, triviaTimeLimit, triviaCategory, triviaDifficulty, settings) ==
  [ id |-> roomId,
    host |-> s,
    participants |-> << [id |-> s, isHost |-> TRUE, score |-> 0] >>,
    settings |-> settings,
    currentMode |-> "study",
    timerRunning |-> FALSE,
    timerValue |-> settings.studyTime,
    triviaCategory |-> triviaCategory,
    triviaQuestions |-> <<>>,
    currentQuestionIndex |-> -1,
    timerInterval |-> FALSE,
    breakEndTime |-> NoDeadline,
    inactivityCount |-> 0,
    breakTimerInterval |-> FALSE,
    triviaPaused |-> FALSE,
    pendingAnswers |-> <<>>,
    playTrivia |-> playTrivia,
    triviaDifficulty |-> triviaDifficulty,
    lastTriviaCategory |-> triviaCategory,
    hasHadFirstTriviaRound |-> FALSE,
    triviaTimeLimit |-> triviaTimeLimit,
    resumingFromInactivity |-> FALSE,
    nextBatchQuestions |-> <<>>,        \* null and [] read alike (line 1706)
    isRegeneratingQuestions |-> FALSE ]

\* generateRoomId: six random characters, not checked against activeRooms
generateRoomId == RoomIds

createRoom(c, s, roomId, playTrivia, triviaTimeLimit, triviaCategory, triviaDifficulty, settings) ==
  SetRoom(c, roomId,
          NewRoom(s, roomId, playTrivia, triviaTimeLimit, triviaCategory,
                  triviaDifficulty, settings))

joinRoom(c, s, roomId) ==
  LET room == c.ar[roomId] IN
  IF room = NoRoom THEN Emit(c, Ev("join-reply", roomId, FALSE))
  ELSE LET newUser == [id |-> s, isHost |-> FALSE, score |-> 0]
           room2 == [room EXCEPT !.participants = Append(@, newUser)]
       IN Emit(Emit(SetRoom(c, roomId, room2), Ev("room-updated", roomId, room2)),
               Ev("join-reply", roomId, TRUE))

\* the calls that wait for generateTriviaQuestions hold the room object they
\* looked up before the await
Awaiting == {"genStart", "genSelect", "genBackground"}

\* delete activeRooms[roomId]: the object those calls hold is registered no more,
\* also when a later room is registered under the same id
RECURSIVE Orphaned(_, _)
Orphaned(tk, roomId) ==
  IF tk = <<>> THEN <<>>
  ELSE LET t == Head(tk)
       IN <<IF t.kind \in Awaiting /\ t.room = roomId
            THEN [t EXCEPT !.arg = [topic |-> t.arg.topic, difficulty |-> t.arg.difficulty,
                                    gone |-> TRUE]]
            ELSE t>> \o Orphaned(Tail(tk), roomId)

\* the teardown branch shared by leave-room and disconnect
closeRoom(c, roomId) ==
  [c EXCEPT !.tk = Orphaned(ClearHeld(ClearHeld(@, "studyTick", roomId), "breakTick", roomId),
                            roomId),
            !.ar[roomId] = NoRoom]

\* host reassignment, or teardown, after room.participants has been reduced to ps
afterRemoval(c, s, roomId, ps, wasHost) ==
  LET room == c.ar[roomId] IN
  IF wasHost
  THEN IF Len(ps) > 0
       THEN LET room2 == [room EXCEPT !.participants = [ps EXCEPT ![1].isHost = TRUE],
                                      !.host = ps[1].id]
            IN Emit(SetRoom(c, roomId, room2), Ev("room-updated", roomId, room2))
       ELSE closeRoom(c, roomId)
  ELSE LET room2 == [room EXCEPT !.participants = ps]
       IN Emit(SetRoom(c, roomId, room2), Ev("room-updated", roomId, room2))

leaveRoom(c, s, roomId) ==
  LET room == c.ar[roomId] IN
  IF room = NoRoom THEN c
  ELSE afterRemoval(c, s, roomId,
                    SelectSeq(room.participants, LAMBDA p : p.id # s),
                    s = room.host)

disconnectRoom(c, s, roomId) ==
  LET room == c.ar[roomId] IN
  IF room = NoRoom THEN c
  ELSE LET participantIndex == FindIndex(room.participants, s) IN
       IF participantIndex = 0 THEN c
       ELSE afterRemoval(c, s, roomId,
                         RemoveAt(room.participants, participantIndex),
                         s = room.host)

\* Object.keys(activeRooms).forEach(...)
RECURSIVE disconnectAll(_, _, _)
disconnectAll(c, s, rids) ==
  IF rids = {} THEN c
  ELSE LET r == CHOOSE x \in rids : TRUE
       IN disconnectAll(disconnectRoom(c, s, r), s, rids \ {r})

---------------------------------------------------------------------------
(* Question source: aiTrivia.js and the predefined pool of server.js *)

\* uuidv4(): an id no stored question carries.  Questions of one batch are
\* <<batch, position>>; the batch number is the least one no room refers to.
UsedBatches(ar) ==
  UNION { {q.id[1] : q \in Range(ar[r].triviaQuestions)}
            \cup {q.id[1] : q \in Range(ar[r].nextBatchQuestions)}
            \cup {a.questionId[1] : a \in Range(ar[r].pendingAnswers)}
          : r \in {x \in RoomIds : ar[x] # NoRoom} }

uuidv4(ar) ==
  CHOOSE b \in 1..(Cardinality(UsedBatches(ar)) + 1) : b \notin UsedBatches(ar)

\* a batch: the correct indexes in order, with the source's timeLimit of 10
Batch(bid, correct, topic, src) ==
  [i \in DOMAIN correct |->
     [id |-> <<bid, i>>, correctIndex |-> correct[i], timeLimit |-> 10,
      topic |-> topic, src |-> src]]

\* getFallbackTriviaQuestions(difficulty): the correctIndex column of each pool
getFallbackTriviaQuestions(bid, difficulty) ==
  Batch(bid,
        IF difficulty = "easy" THEN <<2, 1, 1, 1, 1>>
        ELSE IF difficulty = "hard" THEN <<0, 0, 0, 0, 2>>
        ELSE <<1, 1, 2, 2, 1>>,
        "fallback", "fallback")

\* getPredefinedTriviaQuestions('general'): count = 5, timeLimit = 10
getPredefinedTriviaQuestions(bid) ==
  Batch(bid, <<2, 1, 2, 1, 3>>, "general", "predefined")

\* generateTriviaQuestions(topic, 5, difficulty): the service answers with an
\* array of questions (outcome.ok, outcome.correct its correctIndex column) or the
\* call fails in any way and the fallback pool of the difficulty is returned.
generateTriviaQuestions(bid, topic, difficulty, outcome) ==
  IF outcome.ok THEN Batch(bid, outcome.correct, topic, "ai")
  ELSE getFallbackTriviaQuestions(bid, difficulty)

\* questions.forEach(question => question.timeLimit = room.triviaTimeLimit)
ApplyTimeLimit(qs, limit) == [i \in DOMAIN qs |-> [qs[i] EXCEPT !.timeLimit = limit]]

---------------------------------------------------------------------------
(* Trivia session controller *)

\* an insertion that puts the participant before those of equal score: the
\* sort that C20 rules out
insertBeforeTies(sorted, p) ==
  LET k == Cardinality({i \in DOMAIN sorted : sorted[i].score > p.score})
  IN SubSeq(sorted, 1, k) \o <<p>> \o SubSeq(sorted, k + 1, Len(sorted))

\* Array.prototype.sort with (a, b) => b.score - a.score is stable: an element
\* goes behind every element that does not compare after it
insertByScore(sorted, p) ==
  LET k == Cardinality({i \in DOMAIN sorted : sorted[i].score >= p.score})
  IN SubSeq(sorted, 1, k) \o <<p>> \o SubSeq(sorted, k + 1, Len(sorted))

\* [...room.participants].sort((a, b) => b.score - a.score)
RECURSIVE sortedParticipants(_)
sortedParticipants(ps) ==
  IF ps = <<>> THEN <<>>
  ELSE insertByScore(sortedParticipants(SubSeq(ps, 1, Len(ps) - 1)), ps[Len(ps)])

\* const winner = sortedParticipants[0]
Winner(ps) == sortedParticipants(ps)[1]

Scores(ps) == [i \in DOMAIN ps |-> [id |-> ps[i].id, score |-> ps[i].score]]

endTriviaSession(c, roomId) ==
  LET room == c.ar[roomId] IN
  IF room = NoRoom THEN c
  ELSE
    LET tk1 == IF room.breakTimerInterval
               THEN Unhold(ClearHeld(c.tk, "breakTick", roomId), "breakTick", roomId)
               ELSE c.tk
        tk2 == IF room.timerInterval
               THEN Unhold(ClearHeld(tk1, "studyTick", roomId), "studyTick", roomId)
               ELSE tk1
        room2 == [room EXCEPT !.breakTimerInterval = FALSE,
                              !.triviaPaused = FALSE,
                              !.inactivityCount = 0,
                              !.timerInterval = FALSE]
        c2 == [SetRoom(c, roomId, room2) EXCEPT !.tk = tk2]
    IN IF Len(room.participants) > 0
       THEN Emit(c2, Ev("trivia-session-ended", roomId,
                        [winner |-> Winner(room.participants).id,
                         allScores |-> Scores(room.participants)]))
       ELSE c2

\* the lines every end of a Break shares: back to study with the study duration
backToStudy(c, roomId) ==
  LET c2 == endTriviaSession(c, roomId)
      room2 == [c2.ar[roomId] EXCEPT !.currentMode = "study",
                                     !.timerValue = c2.ar[roomId].settings.studyTime]
  IN Emit(Emit(SetRoom(c2, roomId, room2), Ev("mode-changed", roomId, "study")),
          Ev("timer-update", roomId, [timeLeft |-> room2.timerValue, isRunning |-> FALSE]))

backgroundRegenerateQuestionsForRoom(c, roomId) ==
  LET room == c.ar[roomId] IN
  IF room = NoRoom THEN c
  ELSE IF room.isRegeneratingQuestions THEN c
  ELSE [SetRoom(c, roomId, [room EXCEPT !.isRegeneratingQuestions = TRUE])
          EXCEPT !.tk = Append(@, Task("genBackground", roomId, 0, FALSE, 0,
                                       [topic |-> room.triviaCategory,
                                        difficulty |-> room.triviaDifficulty,
                                        gone |-> FALSE]))]

\* backgroundRegenerateQuestionsForRoom after its await, had it looked the room
\* up again by its id: the function that C25 rules out
backgroundDoneByRoomId(c, roomId, newQuestions, gone) ==
  LET room == c.ar[roomId] IN
  IF room = NoRoom THEN c
  ELSE SetRoom(c, roomId,
               [room EXCEPT !.nextBatchQuestions = ApplyTimeLimit(newQuestions, room.triviaTimeLimit),
                            !.isRegeneratingQuestions = FALSE])

\* backgroundRegenerateQuestionsForRoom after its await; gone: the room object
\* of the call has been deleted from activeRooms, and its fields are written
\* where no registered room is
backgroundDone(c, roomId, newQuestions, gone) ==
  LET room == c.ar[roomId] IN
  IF room = NoRoom THEN c
  ELSE IF gone THEN c
  ELSE SetRoom(c, roomId,
               [room EXCEPT !.nextBatchQuestions = ApplyTimeLimit(newQuestions, room.triviaTimeLimit),
                            !.isRegeneratingQuestions = FALSE])

\* Math.max(0, Math.floor((room.breakEndTime - Date.now()) / 1000))
RemainingBreak(room) == Max(0, room.breakEndTime)

\* room.breakEndTime && Date.now() >= room.breakEndTime
DeadlinePassed(room) == room.breakEndTime # NoDeadline /\ room.breakEndTime <= 0

\* emitQuestion that leaves resumingFromInactivity set when it shows a
\* question: the bypass that C6 requires to be consumed stays open
emitQuestionKeepingBypass(c, roomId, room) ==
  IF room.inactivityCount >= 2 /\ ~room.resumingFromInactivity
  THEN Emit(SetRoom(c, roomId, [room EXCEPT !.triviaPaused = TRUE]),
            Ev("trivia-message", roomId, "paused"))
  ELSE IF room.triviaPaused /\ ~room.resumingFromInactivity
  THEN SetRoom(c, roomId, room)
  ELSE
    LET inc == room.currentQuestionIndex + 1
        idx == IF inc >= Len(room.triviaQuestions) THEN 0 ELSE inc
        empty == Len(room.triviaQuestions) = 0
        qs == IF empty THEN getPredefinedTriviaQuestions(uuidv4(c.ar))
              ELSE room.triviaQuestions
        currentQuestion == qs[idx + 1]
        room2 == [room EXCEPT !.currentQuestionIndex = idx,
                              !.triviaQuestions = qs,
                              !.pendingAnswers = <<>>]
        c2 == IF empty THEN Emit(c, Ev("trivia-message", roomId, "error")) ELSE c
        c3 == Emit(SetRoom(c2, roomId, room2),
                   Ev("new-question", roomId,
                      [id |-> currentQuestion.id, correctIndex |-> NULL,
                       timeLimit |-> currentQuestion.timeLimit]))
    IN [c3 EXCEPT !.tk = Append(@, Task("questionTick", roomId, 1, FALSE,
                                        currentQuestion.timeLimit, currentQuestion.id))]

\* nextTriviaQuestion from the inactivity gate on (lines 1748-1910); room is
\* the record with currentQuestionIndex already moved by lines 1702-1746
emitQuestion(c, roomId, room) ==
  IF room.inactivityCount >= 2 /\ ~room.resumingFromInactivity
  THEN Emit(SetRoom(c, roomId, [room EXCEPT !.triviaPaused = TRUE]),
            Ev("trivia-message", roomId, "paused"))
  ELSE IF room.triviaPaused /\ ~room.resumingFromInactivity
  THEN SetRoom(c, roomId, room)
  ELSE
    LET inc == room.currentQuestionIndex + 1
        idx == IF inc >= Len(room.triviaQuestions) THEN 0 ELSE inc
        empty == Len(room.triviaQuestions) = 0
        qs == IF empty THEN getPredefinedTriviaQuestions(uuidv4(c.ar))
              ELSE room.triviaQuestions
        currentQuestion == qs[idx + 1]
        room2 == [room EXCEPT !.resumingFromInactivity = FALSE,
                              !.currentQuestionIndex = idx,
                              !.triviaQuestions = qs,
                              !.pendingAnswers = <<>>]
        c2 == IF empty THEN Emit(c, Ev("trivia-message", roomId, "error")) ELSE c
        c3 == Emit(SetRoom(c2, roomId, room2),
                   Ev("new-question", roomId,
                      [id |-> currentQuestion.id, correctIndex |-> NULL,
                       timeLimit |-> currentQuestion.timeLimit]))
    IN [c3 EXCEPT !.tk = Append(@, Task("questionTick", roomId, 1, FALSE,
                                        currentQuestion.timeLimit, currentQuestion.id))]

\* nextTriviaQuestion without the test of the deadline: the sequencing that
\* C21 rules out
nextTriviaQuestionPastDeadline(c, roomId) ==
  LET room0 == c.ar[roomId] IN
  IF room0 = NoRoom THEN c
  ELSE IF room0.currentMode # "trivia" THEN c
  ELSE
    LET c1 == IF room0.currentQuestionIndex = Len(room0.triviaQuestions) - 2
              THEN backgroundRegenerateQuestionsForRoom(c, roomId)
              ELSE c
        room == c1.ar[roomId]
    IN IF room.currentQuestionIndex >= Len(room.triviaQuestions) - 1
       THEN IF Len(room.nextBatchQuestions) > 0
            THEN emitQuestion(c1, roomId,
                              [room EXCEPT !.triviaQuestions = room.nextBatchQuestions,
                                           !.nextBatchQuestions = <<>>,
                                           !.currentQuestionIndex = 0])
            ELSE IF RemainingBreak(room) < 20
            THEN backToStudy(c1, roomId)
            ELSE emitQuestion(c1, roomId, [room EXCEPT !.currentQuestionIndex = 0])
       ELSE emitQuestion(c1, roomId, [room EXCEPT !.currentQuestionIndex = @ + 1])

nextTriviaQuestion(c, roomId) ==
  LET room0 == c.ar[roomId] IN
  IF room0 = NoRoom THEN c
  ELSE IF room0.currentMode # "trivia" THEN c
  ELSE IF DeadlinePassed(room0)
  THEN backToStudy(Emit(c, Ev("trivia-message", roomId, "break over")), roomId)
  ELSE
    LET c1 == IF room0.currentQuestionIndex = Len(room0.triviaQuestions) - 2
              THEN backgroundRegenerateQuestionsForRoom(c, roomId)
              ELSE c
        room == c1.ar[roomId]
    IN IF room.currentQuestionIndex >= Len(room.triviaQuestions) - 1
       THEN IF Len(room.nextBatchQuestions) > 0
            THEN emitQuestion(c1, roomId,
                              [room EXCEPT !.triviaQuestions = room.nextBatchQuestions,
                                           !.nextBatchQuestions = <<>>,
                                           !.currentQuestionIndex = 0])
            ELSE IF RemainingBreak(room) < 20
            THEN backToStudy(c1, roomId)
            ELSE emitQuestion(c1, roomId, [room EXCEPT !.currentQuestionIndex = 0])
       ELSE emitQuestion(c1, roomId, [room EXCEPT !.currentQuestionIndex = @ + 1])

\* Math.ceil(answer.timeRemaining * (20 / currentQuestion.timeLimit)), both
\* numbers integers, timeLimit > 0: the quotient is rounded to a double, the
\* product is rounded to a double, and Math.ceil is taken of that.
pointsEarned(timeRemaining, timeLimit) ==
  IF timeRemaining = 0 THEN 0
  ELSE IF timeRemaining > 0
  THEN DoubleCeil(DoubleTimes(timeRemaining, DoubleQuotient(20, timeLimit)))
  ELSE -DoubleFloor(DoubleTimes(-timeRemaining, DoubleQuotient(20, timeLimit)))

\* the for loop over correctAnswers (lines 1869-1878): each correct answer adds
\* its points to the first participant with the answer's userId
RECURSIVE awardPoints(_, _, _)
awardPoints(ps, correctAnswers, timeLimit) ==
  IF correctAnswers = <<>> THEN ps
  ELSE LET answer == Head(correctAnswers)
           k == FindIndex(ps, answer.userId)
           ps2 == IF k = 0 THEN ps
                  ELSE [ps EXCEPT ![k].score = @ + pointsEarned(answer.timeRemaining, timeLimit)]
       IN awardPoints(ps2, Tail(correctAnswers), timeLimit)

\* the body of the questionInterval callback once questionTimer <= 0
resolveQuestion(c, roomId) ==
  LET room == c.ar[roomId] IN
  IF room = NoRoom THEN c
  ELSE IF room.currentQuestionIndex < 0
          \/ room.currentQuestionIndex >= Len(room.triviaQuestions) THEN c
  ELSE
    LET currentQuestion == room.triviaQuestions[room.currentQuestionIndex + 1]
        correctAnswers == SelectSeq(room.pendingAnswers,
                                    LAMBDA a : a.answerIndex = currentQuestion.correctIndex)
        ps == awardPoints(room.participants, correctAnswers, currentQuestion.timeLimit)
        room2 == [room EXCEPT !.participants = ps,
                              !.inactivityCount =
                                 IF Len(room.pendingAnswers) = 0 THEN @ + 1 ELSE 0,
                              !.pendingAnswers = <<>>]
        c2 == Emit(Emit(SetRoom(c, roomId, room2),
                        Ev("question-ended", roomId, currentQuestion.correctIndex)),
                   Ev("score-update", roomId, Scores(ps)))
    IN [c2 EXCEPT !.tk = Append(@, Task("nextTimeout", roomId, 3, FALSE, 0, NULL))]

\* startTriviaSession up to its first await
startTriviaSession(c, roomId) ==
  LET room == c.ar[roomId] IN
  IF room = NoRoom THEN c
  ELSE
    LET tk1 == Append(Unhold(c.tk, "breakTick", roomId),
                      Task("breakTick", roomId, 1, TRUE, 0, NULL))
        tk2 == IF ~room.hasHadFirstTriviaRound
               THEN Append(tk1, Task("prefetchTimeout", roomId, 5, FALSE, 0, NULL))
               ELSE tk1
        room1 == [room EXCEPT !.breakEndTime = room.settings.breakTime,
                              !.breakTimerInterval = TRUE]
        c1 == [SetRoom(c, roomId, room1) EXCEPT !.tk = tk2]
    IN IF ~room.playTrivia
       THEN Emit(c1, Ev("trivia-disabled", roomId, room.settings.breakTime))
       ELSE
         LET ps == [i \in DOMAIN room.participants |->
                      [room.participants[i] EXCEPT !.score = 0]]
             room2 == [room1 EXCEPT !.currentQuestionIndex = -1,
                                    !.inactivityCount = 0,
                                    !.triviaPaused = FALSE,
                                    !.resumingFromInactivity = FALSE,
                                    !.pendingAnswers = <<>>,
                                    !.participants = ps]
             c2 == Emit(SetRoom(c1, roomId, room2), Ev("score-update", roomId, Scores(ps)))
         IN IF ~room.hasHadFirstTriviaRound
            THEN [Emit(SetRoom(c2, roomId, [room2 EXCEPT !.hasHadFirstTriviaRound = TRUE]),
                       Ev("trivia-loading", roomId, TRUE))
                    EXCEPT !.tk = Append(@, Task("genStart", roomId, 0, FALSE, 0,
                                                 [topic |-> room.triviaCategory,
                                                  difficulty |-> room.triviaDifficulty,
                                                  gone |-> FALSE]))]
            ELSE Emit(c2, Ev("select-category", roomId, room.lastTriviaCategory))

\* startTriviaSession and select-topic after their await: the handler holds the
\* room object and does not look it up again, so a torn-down room still
\* gets its trivia-loading event and its timeout (which finds no room).
questionsReady(c, roomId, questions, first, gone) ==
  LET room == c.ar[roomId]
      c1 == IF room = NoRoom \/ gone THEN c
            ELSE SetRoom(c, roomId,
                   [room EXCEPT !.triviaQuestions = ApplyTimeLimit(questions, room.triviaTimeLimit),
                                !.lastTriviaCategory =
                                   IF first THEN room.triviaCategory ELSE @])
  IN [Emit(c1, Ev("trivia-loading", roomId, FALSE))
        EXCEPT !.tk = Append(@, Task("nextTimeout", roomId, 2, FALSE, 0, NULL))]

selectTopic(c, roomId, topic, difficulty, timeLimit) ==
  LET room == c.ar[roomId] IN
  IF room = NoRoom THEN c
  ELSE IF room.currentMode # "trivia" THEN c
  ELSE [Emit(SetRoom(c, roomId,
                     [room EXCEPT !.triviaCategory = topic,
                                  !.lastTriviaCategory = topic,
                                  !.triviaDifficulty = difficulty,
                                  !.triviaTimeLimit = timeLimit,
                                  !.currentQuestionIndex = -1]),
             Ev("trivia-loading", roomId, TRUE))
          EXCEPT !.tk = Append(@, Task("genSelect", roomId, 0, FALSE, 0,
                                       [topic |-> topic, difficulty |-> difficulty,
                                        gone |-> FALSE]))]

\* submitAnswer with a resume branch that buffers the answer too: the handler
\* that C5 rules out
submitAnswerBuffering(c, s, roomId, questionId, answerIndex, timeRemaining) ==
  LET room == c.ar[roomId]
      answer == [userId |-> s, answerIndex |-> answerIndex,
                 timeRemaining |-> timeRemaining, questionId |-> questionId]
  IN
  IF room = NoRoom THEN c
  ELSE IF room.currentMode # "trivia" THEN c
  ELSE IF room.triviaPaused
  THEN [Emit(Emit(SetRoom(c, roomId,
                          [room EXCEPT !.triviaPaused = FALSE,
                                       !.inactivityCount = 0,
                                       !.resumingFromInactivity = TRUE,
                                       !.pendingAnswers = Append(@, answer)]),
                  Ev("trivia-message", roomId, "resumed")),
             Ev("answer-received", s, questionId))
          EXCEPT !.tk = Append(@, Task("resumeTimeout", roomId, 1, FALSE, 0, NULL))]
  ELSE IF room.currentQuestionIndex < 0
          \/ room.currentQuestionIndex >= Len(room.triviaQuestions) THEN c
  ELSE IF questionId = room.triviaQuestions[room.currentQuestionIndex + 1].id
  THEN Emit(SetRoom(c, roomId,
                    [room EXCEPT !.inactivityCount = 0,
                                 !.pendingAnswers = Append(@, answer)]),
            Ev("answer-received", s, questionId))
  ELSE c

submitAnswer(c, s, roomId, questionId, answerIndex, timeRemaining) ==
  LET room == c.ar[roomId] IN
  IF room = NoRoom THEN c
  ELSE IF room.currentMode # "trivia" THEN c
  ELSE IF room.triviaPaused
  THEN [Emit(Emit(SetRoom(c, roomId,
                          [room EXCEPT !.triviaPaused = FALSE,
                                       !.inactivityCount = 0,
                                       !.resumingFromInactivity = TRUE]),
                  Ev("trivia-message", roomId, "resumed")),
             Ev("answer-received", s, questionId))
          EXCEPT !.tk = Append(@, Task("resumeTimeout", roomId, 1, FALSE, 0, NULL))]
  ELSE IF room.currentQuestionIndex < 0
          \/ room.currentQuestionIndex >= Len(room.triviaQuestions) THEN c
  ELSE IF questionId = room.triviaQuestions[room.currentQuestionIndex + 1].id
  THEN Emit(SetRoom(c, roomId,
                    [room EXCEPT !.inactivityCount = 0,
                                 !.pendingAnswers =
                                    Append(@, [userId |-> s,
                                               answerIndex |-> answerIndex,
                                               timeRemaining |-> timeRemaining,
                                               questionId |-> questionId])]),
            Ev("answer-received", s, questionId))
  ELSE c

\* the setTimeout callback of the resume branch (lines 1377-1437)
resumeTrivia(c, roomId) ==
  LET room == c.ar[roomId] IN
  IF room = NoRoom THEN c
  ELSE nextTriviaQuestion(
         SetRoom(c, roomId,
                 [room EXCEPT !.triviaQuestions =
                                 IF Len(@) = 0 THEN getPredefinedTriviaQuestions(uuidv4(c.ar))
                                 ELSE @,
                              !.currentQuestionIndex = -1]),
         roomId)

---------------------------------------------------------------------------
(* Timer controller *)

TimerUpdate(roomId, timeLeft, isRunning) ==
  Ev("timer-update", roomId, [timeLeft |-> timeLeft, isRunning |-> isRunning])

\* startTimer that installs its interval without clearing the one that runs:
\* the handler that C12 rules out
startTimerStacking(c, s, roomId) ==
  LET room == c.ar[roomId] IN
  IF room = NoRoom THEN c
  ELSE IF s # room.host THEN c
  ELSE
    LET study == room.currentMode = "study"
        timerValue == IF room.timerValue > 0 THEN room.timerValue
                      ELSE IF study THEN room.settings.studyTime
                      ELSE room.settings.breakTime
        tk1 == Unhold(Unhold(c.tk, "studyTick", roomId), "breakTick", roomId)
        room2 == [room EXCEPT !.timerValue = timerValue,
                              !.timerInterval = study,
                              !.breakTimerInterval = ~study,
                              !.breakEndTime = IF study THEN @ ELSE timerValue,
                              !.timerRunning = TRUE]
        tk3 == Append(tk1, Task(IF study THEN "studyTick" ELSE "breakTick",
                                roomId, 1, TRUE, 0, NULL))
    IN Emit([SetRoom(c, roomId, room2) EXCEPT !.tk = tk3],
            TimerUpdate(roomId, timerValue, TRUE))

\* startTimer without the host test: the handler that C11 rules out
startTimerByAnyone(c, s, roomId) ==
  LET room == c.ar[roomId] IN
  IF room = NoRoom THEN c
  ELSE
    LET study == room.currentMode = "study"
        timerValue == IF room.timerValue > 0 THEN room.timerValue
                      ELSE IF study THEN room.settings.studyTime
                      ELSE room.settings.breakTime
        tk1 == IF room.timerInterval THEN ClearHeld(c.tk, "studyTick", roomId) ELSE c.tk
        tk2 == IF room.breakTimerInterval THEN ClearHeld(tk1, "breakTick", roomId) ELSE tk1
        room2 == [room EXCEPT !.timerValue = timerValue,
                              !.timerInterval = study,
                              !.breakTimerInterval = ~study,
                              !.breakEndTime = IF study THEN @ ELSE timerValue,
                              !.timerRunning = TRUE]
        tk3 == Append(tk2, Task(IF study THEN "studyTick" ELSE "breakTick",
                                roomId, 1, TRUE, 0, NULL))
    IN Emit([SetRoom(c, roomId, room2) EXCEPT !.tk = tk3],
            TimerUpdate(roomId, timerValue, TRUE))

startTimer(c, s, roomId) ==
  LET room == c.ar[roomId] IN
  IF room = NoRoom THEN c
  ELSE IF s # room.host THEN c
  ELSE
    LET timerValue == IF room.timerValue <= 0
                      THEN IF room.currentMode = "study" THEN room.settings.studyTime
                           ELSE room.settings.breakTime
                      ELSE room.timerValue
        tk1 == IF room.timerInterval THEN ClearHeld(c.tk, "studyTick", roomId) ELSE c.tk
        tk2 == IF room.breakTimerInterval THEN ClearHeld(tk1, "breakTick", roomId) ELSE tk1
        room1 == [room EXCEPT !.timerValue = timerValue,
                              !.timerInterval = FALSE,
                              !.breakTimerInterval = FALSE,
                              !.timerRunning = TRUE]
        room2 == IF room.currentMode = "study"
                 THEN [room1 EXCEPT !.timerInterval = TRUE]
                 ELSE [room1 EXCEPT !.breakEndTime = timerValue,
                                    !.breakTimerInterval = TRUE]
        tk3 == Append(tk2, Task(IF room.currentMode = "study" THEN "studyTick" ELSE "breakTick",
                                roomId, 1, TRUE, 0, NULL))
    IN Emit([SetRoom(c, roomId, room2) EXCEPT !.tk = tk3],
            TimerUpdate(roomId, timerValue, TRUE))

pauseTimer(c, s, roomId) ==
  LET room == c.ar[roomId] IN
  IF room = NoRoom THEN c
  ELSE IF s # room.host THEN c
  ELSE
    LET study == room.currentMode = "study"
        room2 == IF study
                 THEN [room EXCEPT !.timerInterval = FALSE, !.timerRunning = FALSE]
                 ELSE IF room.breakTimerInterval
                 THEN [room EXCEPT !.breakTimerInterval = FALSE,
                                   !.timerValue = RemainingBreak(room),
                                   !.timerRunning = FALSE]
                 ELSE [room EXCEPT !.timerRunning = FALSE]
        tk2 == IF study
               THEN IF room.timerInterval THEN ClearHeld(c.tk, "studyTick", roomId) ELSE c.tk
               ELSE IF room.breakTimerInterval THEN ClearHeld(c.tk, "breakTick", roomId)
               ELSE c.tk
    IN Emit([SetRoom(c, roomId, room2) EXCEPT !.tk = tk2],
            TimerUpdate(roomId, room2.timerValue, FALSE))

\* skipTimer that flips the mode and keeps the remaining time of the phase it
\* leaves: the handler that C14 rules out
skipTimerKeepingTime(c, s, roomId) ==
  LET room == c.ar[roomId] IN
  IF room = NoRoom THEN c
  ELSE IF s # room.host THEN c
  ELSE
    LET tk1 == IF room.timerInterval THEN ClearHeld(c.tk, "studyTick", roomId) ELSE c.tk
        tk2 == IF room.breakTimerInterval THEN ClearHeld(tk1, "breakTick", roomId) ELSE tk1
        room1 == [room EXCEPT !.timerInterval = FALSE,
                              !.breakTimerInterval = FALSE,
                              !.timerRunning = FALSE]
        c1 == [c EXCEPT !.tk = tk2]
    IN IF room.currentMode = "study"
       THEN LET room2 == [room1 EXCEPT !.currentMode = "trivia"]
            IN startTriviaSession(
                 Emit(Emit(SetRoom(c1, roomId, room2), Ev("mode-changed", roomId, "trivia")),
                      TimerUpdate(roomId, room2.timerValue, FALSE)),
                 roomId)
       ELSE LET room2 == [room1 EXCEPT !.currentMode = "study"]
            IN Emit(Emit(endTriviaSession(SetRoom(c1, roomId, room2), roomId),
                         Ev("mode-changed", roomId, "study")),
                    TimerUpdate(roomId, room2.timerValue, FALSE))

skipTimer(c, s, roomId) ==
  LET room == c.ar[roomId] IN
  IF room = NoRoom THEN c
  ELSE IF s # room.host THEN c
  ELSE
    LET tk1 == IF room.timerInterval THEN ClearHeld(c.tk, "studyTick", roomId) ELSE c.tk
        tk2 == IF room.breakTimerInterval THEN ClearHeld(tk1, "breakTick", roomId) ELSE tk1
        room1 == [room EXCEPT !.timerInterval = FALSE,
                              !.breakTimerInterval = FALSE,
                              !.timerRunning = FALSE]
        c1 == [c EXCEPT !.tk = tk2]
    IN IF room.currentMode = "study"
       THEN LET room2 == [room1 EXCEPT !.currentMode = "trivia",
                                       !.timerValue = room.settings.breakTime]
            IN startTriviaSession(
                 Emit(Emit(SetRoom(c1, roomId, room2), Ev("mode-changed", roomId, "trivia")),
                      TimerUpdate(roomId, room2.timerValue, FALSE)),
                 roomId)
       ELSE LET room2 == [room1 EXCEPT !.currentMode = "study",
                                       !.timerValue = room.settings.studyTime]
            IN Emit(Emit(endTriviaSession(SetRoom(c1, roomId, room2), roomId),
                         Ev("mode-changed", roomId, "study")),
                    TimerUpdate(roomId, room2.timerValue, FALSE))

\* a study callback that enters the Break at zero and tells nobody: the
\* callback that C16 rules out
studyTickUnannounced(c, roomId) ==
  LET room == c.ar[roomId] IN
  IF room = NoRoom THEN c
  ELSE
    LET timerValue == room.timerValue - 1
        c1 == Emit(SetRoom(c, roomId, [room EXCEPT !.timerValue = timerValue]),
                   TimerUpdate(roomId, timerValue, room.timerRunning))
    IN IF timerValue <= 0
       THEN LET room2 == [room EXCEPT !.timerRunning = FALSE,
                                      !.currentMode = "trivia",
                                      !.timerValue = room.settings.breakTime]
                c2 == [SetRoom(c1, roomId, room2)
                         EXCEPT !.tk = ClearHeld(@, "studyTick", roomId)]
            IN startTriviaSession(Emit(c2, TimerUpdate(roomId, room2.timerValue, FALSE)),
                                  roomId)
       ELSE c1

\* the study setInterval callback (lines 1113-1140)
studyTick(c, roomId) ==
  LET room == c.ar[roomId] IN
  IF room = NoRoom THEN c
  ELSE
    LET timerValue == room.timerValue - 1
        c1 == Emit(SetRoom(c, roomId, [room EXCEPT !.timerValue = timerValue]),
                   TimerUpdate(roomId, timerValue, room.timerRunning))
    IN IF timerValue <= 0
       THEN LET room2 == [room EXCEPT !.timerRunning = FALSE,
                                      !.currentMode = "trivia",
                                      !.timerValue = room.settings.breakTime]
                c2 == [SetRoom(c1, roomId, room2)
                         EXCEPT !.tk = ClearHeld(@, "studyTick", roomId)]
            IN startTriviaSession(
                 Emit(Emit(c2, Ev("mode-changed", roomId, "trivia")),
                      TimerUpdate(roomId, room2.timerValue, FALSE)),
                 roomId)
       ELSE c1

sendBreakTimeUpdate(c, roomId) ==
  LET room == c.ar[roomId] IN
  IF room = NoRoom THEN c
  ELSE IF room.currentMode # "trivia" THEN c
  ELSE
    LET remainingTime == RemainingBreak(room)
        c1 == Emit(c, TimerUpdate(roomId, remainingTime, TRUE))
    IN IF remainingTime <= 0
       THEN LET c2 == endTriviaSession(Emit(c1, Ev("trivia-message", roomId, "break over")),
                                       roomId)
                room2 == [c2.ar[roomId] EXCEPT !.currentMode = "study",
                                               !.timerValue = room.settings.studyTime,
                                               !.timerRunning = FALSE]
            IN Emit(Emit(SetRoom(c2, roomId, room2), Ev("mode-changed", roomId, "study")),
                    TimerUpdate(roomId, room2.timerValue, FALSE))
       ELSE IF remainingTime = 10
       THEN Emit(c1, Ev("trivia-message", roomId, "ending soon"))
       ELSE c1

---------------------------------------------------------------------------
(* Actions of the registry *)

Connect(s) ==
  /\ connected[s] = "new"
  /\ connected' = [connected EXCEPT ![s] = "open"]
  /\ Commit(Ctx)

CreateRoom(s, roomId, playTrivia, triviaTimeLimit, triviaCategory, triviaDifficulty, settings) ==
  /\ connected[s] = "open"
  /\ roomId \in generateRoomId
  /\ Commit(createRoom(Ctx, s, roomId, playTrivia, triviaTimeLimit, triviaCategory,
                       triviaDifficulty, settings))
  /\ UNCHANGED connected

JoinRoom(s, roomId) ==
  /\ connected[s] = "open"
  /\ activeRooms[roomId] # NoRoom => Len(activeRooms[roomId].participants) < MaxParticipants
  /\ Commit(joinRoom(Ctx, s, roomId))
  /\ UNCHANGED connected

LeaveRoom(s, roomId) ==
  /\ connected[s] = "open"
  /\ Commit(leaveRoom(Ctx, s, roomId))
  /\ UNCHANGED connected

Disconnect(s) ==
  /\ connected[s] = "open"
  /\ connected' = [connected EXCEPT ![s] = "closed"]
  /\ Commit(disconnectAll(Ctx, s, RoomIds))

---------------------------------------------------------------------------
(* Actions of the timer controller and of the trivia controller *)

\* if (!room) return; if (socket.id !== room.host) return;
Refused(s, roomId) == activeRooms[roomId] = NoRoom \/ s # activeRooms[roomId].host

\* what becomes of the timer control op: turned away by the guards, or carried
\* out ("restart": start-timer while room.timerRunning)
Control(op, s, roomId) ==
  IF Refused(s, roomId) THEN "refused"
  ELSE IF op = "start" /\ activeRooms[roomId].timerRunning THEN "restart"
  ELSE op

StartTimer(s, roomId) ==
  /\ connected[s] = "open"
  /\ Settle(startTimer(Ctx, s, roomId))
  /\ control' = Control("start", s, roomId)
  /\ UNCHANGED connected

PauseTimer(s, roomId) ==
  /\ connected[s] = "open"
  /\ Settle(pauseTimer(Ctx, s, roomId))
  /\ control' = Control("pause", s, roomId)
  /\ UNCHANGED connected

SkipTimer(s, roomId) ==
  /\ connected[s] = "open"
  /\ Settle(skipTimer(Ctx, s, roomId))
  /\ control' = Control("skip", s, roomId)
  /\ UNCHANGED connected

\* the callbacks of a room that can lead to a question: a bound of the model
\* keeps the environment from starting ever more of them
ChainKinds == {"questionTick", "nextTimeout", "resumeTimeout", "genSelect", "genStart"}

Chains(roomId) ==
  Cardinality({i \in DOMAIN tasks : tasks[i].room = roomId /\ tasks[i].kind \in ChainKinds})

SelectTopic(s, roomId, topic, difficulty, timeLimit) ==
  /\ connected[s] = "open"
  /\ Chains(roomId) < MaxChains
  /\ Commit(selectTopic(Ctx, roomId, topic, difficulty, timeLimit))
  /\ UNCHANGED connected

SubmitAnswer(s, roomId, questionId, answerIndex, timeRemaining) ==
  /\ connected[s] = "open"
  /\ activeRooms[roomId] # NoRoom =>
       /\ Len(activeRooms[roomId].pendingAnswers) < MaxPending
       /\ \A p \in Range(activeRooms[roomId].participants) :
            p.score < MaxScore /\ p.score > -MaxScore
  /\ Commit(submitAnswer(Ctx, s, roomId, questionId, answerIndex, timeRemaining))
  /\ UNCHANGED connected

---------------------------------------------------------------------------
(* Scheduled callbacks *)

TimedKinds == {"studyTick", "breakTick", "questionTick", "nextTimeout",
               "resumeTimeout", "prefetchTimeout"}

Due(i, kind) == i \in DOMAIN tasks /\ tasks[i].kind = kind /\ tasks[i].left = 0

Without(tk, i) == RemoveAt(tk, i)

Rearm(tk, i) == [tk EXCEPT ![i].left = 1]

\* one second passes
Tick ==
  /\ \A i \in DOMAIN tasks : tasks[i].kind \in TimedKinds => tasks[i].left > 0
  /\ tasks' = [i \in DOMAIN tasks |->
                 IF tasks[i].kind \in TimedKinds THEN [tasks[i] EXCEPT !.left = @ - 1]
                 ELSE tasks[i]]
  /\ activeRooms' = [r \in RoomIds |->
                       IF activeRooms[r] = NoRoom THEN NoRoom
                       ELSE [activeRooms[r] EXCEPT !.breakEndTime =
                               IF @ = NoDeadline THEN @ ELSE Max(0, @ - 1)]]
  /\ events' = <<>>
  /\ control' = "none"
  /\ UNCHANGED <<connected, asked, resolved>>

StudyTick(i) ==
  /\ Due(i, "studyTick")
  /\ Commit(studyTick([Ctx EXCEPT !.tk = Rearm(@, i)], tasks[i].room))
  /\ UNCHANGED connected

BreakTick(i) ==
  /\ Due(i, "breakTick")
  /\ Commit(sendBreakTimeUpdate([Ctx EXCEPT !.tk = Rearm(@, i)], tasks[i].room))
  /\ UNCHANGED connected

\* the questionInterval callback (lines 1834-1909)
QuestionTick(i) ==
  /\ Due(i, "questionTick")
  /\ LET roomId == tasks[i].room
         questionTimer == tasks[i].qt - 1
         c == Emit(Ctx, Ev("question-timer", roomId, questionTimer))
     IN IF questionTimer <= 0
        THEN Commit(resolveQuestion([c EXCEPT !.tk = Without(@, i)], roomId))
        ELSE Commit([c EXCEPT !.tk = [@ EXCEPT ![i].left = 1, ![i].qt = questionTimer]])
  /\ UNCHANGED connected

NextTimeout(i) ==
  /\ Due(i, "nextTimeout")
  /\ Commit(nextTriviaQuestion([Ctx EXCEPT !.tk = Without(@, i)], tasks[i].room))
  /\ UNCHANGED connected

ResumeTimeout(i) ==
  /\ Due(i, "resumeTimeout")
  /\ Commit(resumeTrivia([Ctx EXCEPT !.tk = Without(@, i)], tasks[i].room))
  /\ UNCHANGED connected

PrefetchTimeout(i) ==
  /\ Due(i, "prefetchTimeout")
  /\ Commit(backgroundRegenerateQuestionsForRoom([Ctx EXCEPT !.tk = Without(@, i)],
                                                 tasks[i].room))
  /\ UNCHANGED connected

\* the await of generateTriviaQuestions returns, after any time
GenerationDone(i, outcome) ==
  /\ i \in DOMAIN tasks
  /\ tasks[i].kind \in Awaiting
  /\ LET t == tasks[i]
         c == [Ctx EXCEPT !.tk = Without(@, i)]
         questions == generateTriviaQuestions(uuidv4(activeRooms), t.arg.topic,
                                              t.arg.difficulty, outcome)
     IN IF t.kind = "genBackground"
        THEN Commit(backgroundDone(c, t.room, questions, t.arg.gone))
        ELSE Commit(questionsReady(c, t.room, questions, t.kind = "genStart", t.arg.gone))
  /\ UNCHANGED connected

---------------------------------------------------------------------------
(* Specifications *)

Init ==
  /\ activeRooms = [r \in RoomIds |-> NoRoom]
  /\ connected = [s \in Sockets |-> "new"]
  /\ tasks = <<>>
  /\ events = <<>>
  /\ asked = [r \in RoomIds |-> <<>>]
  /\ resolved = [r \in RoomIds |-> <<>>]
  /\ control = "none"

DefaultSettings == [studyTime |-> 2, breakTime |-> 30]

\* The registry alone: rooms are created, joined and left; no timer is started.
NextRegistry ==
  \/ \E s \in Sockets : Connect(s)
  \/ \E s \in Sockets, r \in RoomIds :
       CreateRoom(s, r, TRUE, 10, "General Knowledge", "medium", DefaultSettings)
  \/ \E s \in Sockets, r \in RoomIds : JoinRoom(s, r)
  \/ \E s \in Sockets, r \in RoomIds : LeaveRoom(s, r)
  \/ \E s \in Sockets : Disconnect(s)

SpecRegistry == Init /\ [][NextRegistry]_vars

\* The generation service answers with five questions whose answer is option 0.
Answered == [ok |-> TRUE, correct |-> <<0, 0, 0, 0, 0>>]

\* the id of the question at currentQuestionIndex, which new-question has shown
CurrentId(roomId) ==
  LET room == activeRooms[roomId] IN
  IF room = NoRoom THEN {}
  ELSE IF room.currentQuestionIndex < 0
          \/ room.currentQuestionIndex >= Len(room.triviaQuestions) THEN {}
  ELSE {room.triviaQuestions[room.currentQuestionIndex + 1].id}

\* an id of no question
NoQuestion == <<0, 0>>

\* the random id is one that no room and no pending callback uses
Fresh(roomId) ==
  /\ activeRooms[roomId] = NoRoom
  /\ \A i \in DOMAIN tasks : tasks[i].room # roomId

InRoom(s, roomId) ==
  /\ activeRooms[roomId] # NoRoom
  /\ \E p \in Range(activeRooms[roomId].participants) : p.id = s

InStudy(roomId) ==
  activeRooms[roomId] # NoRoom /\ activeRooms[roomId].currentMode = "study"

\* the generation service answers within the second
GenIdle == \A i \in DOMAIN tasks : tasks[i].kind \in TimedKinds

\* the callbacks of a Break with trivia, whichever is due
BreakCallbacks ==
  \/ \E i \in DOMAIN tasks : BreakTick(i)
  \/ \E i \in DOMAIN tasks : QuestionTick(i)
  \/ \E i \in DOMAIN tasks : NextTimeout(i)
  \/ \E i \in DOMAIN tasks : PrefetchTimeout(i)
  \/ \E i \in DOMAIN tasks : GenerationDone(i, Answered)

\* a question of the room is being timed
Timed(roomId) ==
  \E i \in DOMAIN tasks : tasks[i].kind = "questionTick" /\ tasks[i].room = roomId

\* the participant has answered the question on display
HasAnswered(s, roomId) ==
  \E a \in Range(activeRooms[roomId].pendingAnswers) : a.userId = s

\* One room and its host, one second per question and a Break of 14 seconds:
\* the host starts, pauses or skips the Study timer, answers or does not, and may
\* leave.
Next ==
  \/ GenIdle /\ Tick
  \/ BreakCallbacks
  \/ \E i \in DOMAIN tasks : StudyTick(i)
  \/ \E i \in DOMAIN tasks : ResumeTimeout(i)
  \/ Connect("s1")
  \/ Fresh("R1") /\ CreateRoom("s1", "R1", TRUE, 1, "General Knowledge", "medium",
                               [studyTime |-> 2, breakTime |-> 14])
  \/ InStudy("R1") /\ StartTimer("s1", "R1")
  \/ InStudy("R1") /\ PauseTimer("s1", "R1")
  \/ InStudy("R1") /\ SkipTimer("s1", "R1")
  \/ InRoom("s1", "R1") /\ LeaveRoom("s1", "R1")
  \/ \E q \in CurrentId("R1") \cup {NoQuestion} : SubmitAnswer("s1", "R1", q, 0, 1)

Spec == Init /\ [][Next]_vars

\* Two participants and one question of 116 seconds in a Break of 120: each
\* answers option 0 (correct) or 1, with 87 seconds remaining.
NextScoring ==
  \/ GenIdle /\ Tick
  \/ BreakCallbacks
  \/ \E s \in {"s1", "s2"} : Connect(s)
  \/ Fresh("R1") /\ CreateRoom("s1", "R1", TRUE, 116, "General Knowledge", "medium",
                               [studyTime |-> 2, breakTime |-> 120])
  \/ InStudy("R1") /\ ~InRoom("s2", "R1") /\ JoinRoom("s2", "R1")
  \/ InStudy("R1") /\ SkipTimer("s1", "R1")
  \/ \E s \in {"s1", "s2"}, q \in CurrentId("R1"), a \in {0, 1} :
       InRoom(s, "R1") /\ SubmitAnswer(s, "R1", q, a, 87)

SpecScoring == Init /\ [][NextScoring]_vars

\* One room and its host, three seconds per question and a Break of 9: the
\* host may choose a topic while a question is being timed.
NextTopic ==
  \/ GenIdle /\ Tick
  \/ BreakCallbacks
  \/ Connect("s1")
  \/ Fresh("R1") /\ CreateRoom("s1", "R1", TRUE, 3, "General Knowledge", "medium",
                               [studyTime |-> 2, breakTime |-> 9])
  \/ InStudy("R1") /\ SkipTimer("s1", "R1")
  \/ Timed("R1") /\ SelectTopic("s1", "R1", "Math", "medium", 3)
  \/ \E q \in CurrentId("R1") : SubmitAnswer("s1", "R1", q, 0, 3)

SpecTopic == Init /\ [][NextTopic]_vars

\* the round trip: a single participant, a time limit T of 2 or of 147 seconds
\* and a Break long enough for the batch; the participant answers every
\* question as it is shown, once, correctly and with timeRemaining = T.
RoundTrips == {[limit |-> 2, settings |-> [studyTime |-> 2, breakTime |-> 40]],
               [limit |-> 147, settings |-> [studyTime |-> 2, breakTime |-> 760]]}

NextRoundTrip ==
  \/ /\ GenIdle
     /\ Timed("R1") => HasAnswered("s1", "R1")
     /\ Tick
  \/ BreakCallbacks
  \/ Connect("s1")
  \/ \E rt \in RoundTrips :
       Fresh("R1") /\ CreateRoom("s1", "R1", TRUE, rt.limit, "General Knowledge", "medium",
                                 rt.settings)
  \/ InStudy("R1") /\ SkipTimer("s1", "R1")
  \/ \E q \in CurrentId("R1") :
       /\ Timed("R1") /\ ~HasAnswered("s1", "R1")
       /\ SubmitAnswer("s1", "R1", q, 0, activeRooms["R1"].triviaTimeLimit)

SpecRoundTrip == Init /\ [][NextRoundTrip]_vars

\* The phase timer: the host s1 and a participant s2 in R1, a Study of 2 seconds
\* and a Break of 4, with trivia or without; either connection starts, pauses or
\* skips the timer of R1 or of the unregistered R2 at any time.  A Break that
\* begins before trivia has run schedules one more prefetch, so the Study timer
\* is skipped only while fewer than MaxCallbacks callbacks are pending.
NextTimer ==
  \/ GenIdle /\ Tick
  \/ BreakCallbacks
  \/ \E i \in DOMAIN tasks : StudyTick(i)
  \/ \E s \in {"s1", "s2"} : Connect(s)
  \/ \E playTrivia \in BOOLEAN :
       Fresh("R1") /\ CreateRoom("s1", "R1", playTrivia, 1, "General Knowledge", "medium",
                                 [studyTime |-> 2, breakTime |-> 4])
  \/ ~InRoom("s2", "R1") /\ JoinRoom("s2", "R1")
  \/ \E s \in {"s1", "s2"}, r \in RoomIds : StartTimer(s, r)
  \/ \E s \in {"s1", "s2"}, r \in RoomIds : PauseTimer(s, r)
  \/ \E s \in {"s1", "s2"}, r \in RoomIds :
       Len(tasks) < MaxCallbacks /\ SkipTimer(s, r)

SpecTimer == Init /\ [][NextTimer]_vars

---------------------------------------------------------------------------
(* Claims about the room registry (SpecRegistry) *)

Registered(r) == activeRooms[r] # NoRoom

\* the entries of other connections, in join order
Others(r, s) == SelectSeq(activeRooms[r].participants, LAMBDA p : p.id # s)

HostEntries(room) == {i \in DOMAIN room.participants : room.participants[i].isHost}

\* C1: when the host leaves a room (leave-room or disconnect) and a participant
\* of another connection remains, the room stays registered with exactly one
\* host entry, and the host is the earliest-joined participant that remains:
\* room.host is its connection id and its isHost flag is set.
C1_HostHandover ==
  [][\A s \in Sockets, r \in RoomIds :
       (/\ Registered(r)
        /\ activeRooms[r].host = s
        /\ Len(Others(r, s)) > 0
        /\ (LeaveRoom(s, r) \/ Disconnect(s)))
       => /\ activeRooms'[r] # NoRoom
          /\ activeRooms'[r].host = Others(r, s)[1].id
          /\ Cardinality(HostEntries(activeRooms'[r])) = 1
          /\ \A i \in HostEntries(activeRooms'[r]) :
               activeRooms'[r].participants[i].id = activeRooms'[r].host
    ]_vars

\* C2: a registered room has a participant, and one whose connection is open:
\* the room goes in the step in which its last participant leaves or disconnects.
C2_RegisteredIffOccupied ==
  \A r \in RoomIds :
    Registered(r) =>
      /\ Len(activeRooms[r].participants) > 0
      /\ \E p \in Range(activeRooms[r].participants) : connected[p.id] = "open"

---------------------------------------------------------------------------
(* Claims about the question loop (Spec) *)

\* the events a room's own callbacks produce: phase ticks, per-question ticks,
\* resolutions and the questions of the reveal-delay advance
CallbackEvents == {"timer-update", "question-timer", "question-ended",
                   "score-update", "new-question"}

NewQuestions(evs, r) ==
  Cardinality({i \in DOMAIN evs : evs[i].type = "new-question" /\ evs[i].room = r})

\* C3: once a room is removed from the registry none of its scheduled callbacks
\* produces an event for it again: no phase tick, no per-question tick, no
\* resolution, no question of a reveal-delay advance.
C3_SilentAfterRemoval ==
  [][\A r \in RoomIds :
       (activeRooms[r] = NoRoom /\ activeRooms'[r] = NoRoom)
       => \A i \in DOMAIN events' :
            ~(events'[i].room = r /\ events'[i].type \in CallbackEvents)
    ]_vars

\* the two most recently resolved questions of the Break received no answer
SilentTwice(r) ==
  LET n == Len(resolved[r]) IN
  n >= 2 /\ resolved[r][n] = 0 /\ resolved[r][n - 1] = 0

\* C4: when the two most recently resolved questions both received no answer,
\* the next advance to a question (the reveal-delay callback of the second
\* resolution) pauses the quiz: it sets triviaPaused, announces the pause and
\* emits no question.
C4_PauseAfterTwoSilent ==
  [][\A i \in DOMAIN tasks :
       (/\ NextTimeout(i)
        /\ Registered(tasks[i].room)
        /\ ~activeRooms[tasks[i].room].triviaPaused
        /\ SilentTwice(tasks[i].room))
       => /\ activeRooms'[tasks[i].room] # NoRoom
          /\ activeRooms'[tasks[i].room].triviaPaused
          /\ \E j \in DOMAIN events' :
               events'[j] = Ev("trivia-message", tasks[i].room, "paused")
          /\ NewQuestions(events', tasks[i].room) = 0
    ]_vars

\* the answers that can reach the room: any connection, the question on
\* display or none, either option, any time in the countdown of Spec
Submissions(r) ==
  {[s |-> s, q |-> q, a |-> a, tr |-> tr] :
     s \in Sockets, q \in CurrentId(r) \cup {NoQuestion}, a \in {0, 1}, tr \in {0, 1}}

\* C5: an answer submitted while the quiz is paused is never scored: the step
\* leaves the buffer of pending answers and every participant's score as they
\* were, so no later resolution can count it.
C5_PausedAnswerNotScored ==
  [][\A r \in RoomIds : \A x \in Submissions(r) :
       (/\ Registered(r)
        /\ activeRooms[r].triviaPaused
        /\ SubmitAnswer(x.s, r, x.q, x.a, x.tr))
       => /\ activeRooms'[r] # NoRoom
          /\ activeRooms'[r].pendingAnswers = activeRooms[r].pendingAnswers
          /\ activeRooms'[r].participants = activeRooms[r].participants
    ]_vars

\* an answer has resumed a paused quiz
C5_Witness ==
  \E i \in DOMAIN events :
    events[i].type = "trivia-message" /\ events[i].val = "resumed"

ResumeTasks(tk, r) ==
  Cardinality({i \in DOMAIN tk : tk[i].kind = "resumeTimeout" /\ tk[i].room = r})

---------------------------------------------------------------------------
(* Claims about scoring (SpecScoring, SpecRoundTrip, SpecTopic) *)

\* the least integer that is at least n / d, for d > 0
Ceiling(n, d) == -((-n) \div d)

\* what the buffered answers of connection s are worth when question q expires
Worth(pending, s, q) ==
  LET mine == SelectSeq(pending, LAMBDA a : a.userId = s /\ a.answerIndex = q.correctIndex)
  IN SumSeq([i \in DOMAIN mine |-> Ceiling(mine[i].timeRemaining * 20, q.timeLimit)])

\* C7: when the countdown of a question expires, each buffered answer with the
\* question's correctIndex adds ceil(timeRemaining * 20 / timeLimit) to the score
\* of the participant who sent it; a participant with a wrong answer or none
\* keeps the score.
C7_PointsPerCorrectAnswer ==
  [][\A i \in DOMAIN tasks :
       (/\ QuestionTick(i)
        /\ Registered(tasks[i].room)
        /\ Revealed([ev |-> events'], tasks[i].room))
       => LET room == activeRooms[tasks[i].room]
              after == activeRooms'[tasks[i].room]
              q == room.triviaQuestions[room.currentQuestionIndex + 1]
          IN \A k \in DOMAIN room.participants :
               after.participants[k].score =
                 room.participants[k].score
                   + Worth(room.pendingAnswers, room.participants[k].id, q)
    ]_vars

\* C8: one participant who answers every question of a batch of five
\* correctly, reporting the whole time limit as remaining, has exactly 100
\* points once the five questions have been shown and resolved, each of them
\* shown once.
C8_RoundTripScore ==
  (/\ Registered("R1")
   /\ Len(asked["R1"]) = 5
   /\ resolved["R1"] = <<1, 1, 1, 1, 1>>)
  => /\ Cardinality(Range(asked["R1"])) = 5
     /\ activeRooms["R1"].participants[1].score = 100

\* the countdown of the question shown last is still running
LastCountdownRuns(tk, log, r) ==
  /\ log # <<>>
  /\ \E i \in DOMAIN tk :
       tk[i].kind = "questionTick" /\ tk[i].room = r /\ tk[i].arg = log[Len(log)]

\* C9: answers are resolved as one batch when the countdown of their question
\* expires: no step that accepts an answer changes a score, and from the
\* announcement of a question until the expiry of its countdown every score
\* stays as it is.
C9_ScoresChangeAtExpiryOnly ==
  [][\A r \in RoomIds :
       (Registered(r) /\ activeRooms'[r] # NoRoom)
       => /\ (\E j \in DOMAIN events' : events'[j].type = "answer-received")
             => Scores(activeRooms'[r].participants) = Scores(activeRooms[r].participants)
          /\ (asked'[r] = asked[r] /\ LastCountdownRuns(tasks', asked[r], r))
             => Scores(activeRooms'[r].participants) = Scores(activeRooms[r].participants)
    ]_vars

\* C10: pendingAnswers holds at most one entry of a participant for a question.
C10_OneAnswerEach ==
  \A r \in RoomIds :
    Registered(r) =>
      LET pending == activeRooms[r].pendingAnswers IN
      \A i, j \in DOMAIN pending :
        (pending[i].userId = pending[j].userId
         /\ pending[i].questionId = pending[j].questionId) => i = j

---------------------------------------------------------------------------
(* Claims about the phase timer (SpecTimer) *)

\* C11: start-timer, pause-timer and skip-timer do nothing when the room id is
\* not registered or the requester is not the room's host: the rooms and the
\* scheduled callbacks stay as they are and nothing is emitted.
C11_RefusedControlsDoNothing ==
  [][\A s \in Sockets, r \in RoomIds :
       (/\ ~Registered(r) \/ activeRooms[r].host # s
        /\ StartTimer(s, r) \/ PauseTimer(s, r) \/ SkipTimer(s, r))
       => /\ activeRooms' = activeRooms
          /\ tasks' = tasks
          /\ events' = <<>>
    ]_vars

\* a control of the participant s2, or for an unregistered id, has been turned
\* away while the timer of R1 was running
C11_Witness ==
  /\ control = "refused"
  /\ InRoom("s2", "R1")
  /\ activeRooms["R1"].timerRunning

\* the phase countdowns of the room: its study and break intervals
PhaseTicks(tk, r) ==
  {i \in DOMAIN tk : tk[i].room = r /\ tk[i].kind \in {"studyTick", "breakTick"}}

\* C12: a room never has two phase countdowns: whatever happens, at most one
\* study or break interval is scheduled for it, and it is the one the room
\* holds the handle of; start-timer on a running timer leaves exactly one, of
\* the current mode.
C12_OnePhaseCountdown ==
  [][\A r \in RoomIds :
       /\ Cardinality(PhaseTicks(tasks', r)) <= 1
       /\ \A i \in PhaseTicks(tasks', r) : tasks'[i].held
       /\ \A s \in Sockets :
            (StartTimer(s, r) /\ ~Refused(s, r))
            => /\ Cardinality(PhaseTicks(tasks', r)) = 1
               /\ \A i \in PhaseTicks(tasks', r) :
                    tasks'[i].kind = IF activeRooms'[r].currentMode = "study"
                                     THEN "studyTick" ELSE "breakTick"
    ]_vars

\* start-timer has restarted the running countdown of a Break
C12_Witness ==
  /\ control = "restart"
  /\ Registered("R1")
  /\ activeRooms["R1"].currentMode = "trivia"
  /\ Cardinality(PhaseTicks(tasks, "R1")) = 1

\* the phase time the room has left: the ticked value in Study, the time to the
\* deadline in a Break whose countdown runs
PhaseTimeLeft(room) ==
  IF room.currentMode = "trivia" /\ room.breakTimerInterval THEN RemainingBreak(room)
  ELSE room.timerValue

\* C13: pause-timer stops the countdown and keeps the phase time that is left;
\* while the countdown is stopped the mode and the time left stay as they are,
\* however long that lasts; start-timer resumes from exactly that value, in
\* Break with the deadline that many seconds ahead.
C13_PauseKeepsPhaseTime ==
  [][\A r \in RoomIds :
       (Registered(r) /\ activeRooms'[r] # NoRoom)
       => LET room == activeRooms[r]
              after == activeRooms'[r]
          IN /\ \A s \in Sockets :
                  (PauseTimer(s, r) /\ ~Refused(s, r))
                  => /\ PhaseTicks(tasks', r) = {}
                     /\ after.currentMode = room.currentMode
                     /\ after.timerValue = PhaseTimeLeft(room)
                     /\ ~after.timerRunning
             /\ (PhaseTicks(tasks, r) = {} /\ control' \in {"none", "refused"})
                  => /\ after.currentMode = room.currentMode
                     /\ after.timerValue = room.timerValue
             /\ \A s \in Sockets :
                  (StartTimer(s, r) /\ ~Refused(s, r) /\ room.timerValue > 0)
                  => /\ after.currentMode = room.currentMode
                     /\ after.timerValue = room.timerValue
                     /\ after.currentMode = "trivia" => after.breakEndTime = room.timerValue
    ]_vars

\* the step has emitted an event of the type to the room
Emitted(evs, type, r) == \E j \in DOMAIN evs : evs[j].type = type /\ evs[j].room = r

\* the room and the callbacks that skip-timer of the host would leave
Skipped(r) == skipTimer(Ctx, activeRooms[r].host, r)

\* C14: skip-timer of the host, with the timer running or stopped and whatever
\* time is left, makes the transition of a countdown that reaches zero: the
\* phase interval that runs is cancelled, the mode flips, timerValue becomes the
\* configured duration of the new mode, a Break begins with startTriviaSession
\* (its own countdown, the deadline a whole Break ahead, the scores reset when
\* trivia is played) and a Study with endTriviaSession (the results summary).
\* The study countdown and the break countdown that reach zero leave the room
\* and its callbacks as skip-timer would.
C14_SkipIsTheZeroTransition ==
  [][\A r \in RoomIds :
       Registered(r)
       => LET room == activeRooms[r]
              after == activeRooms'[r]
          IN /\ \A s \in Sockets :
                  (SkipTimer(s, r) /\ ~Refused(s, r))
                  => /\ after # NoRoom
                     /\ ~after.timerRunning
                     /\ Emitted(events', "mode-changed", r)
                     /\ IF room.currentMode = "study"
                        THEN /\ after.currentMode = "trivia"
                             /\ after.timerValue = room.settings.breakTime
                             /\ after.breakEndTime = room.settings.breakTime
                             /\ Cardinality(PhaseTicks(tasks', r)) = 1
                             /\ \A i \in PhaseTicks(tasks', r) :
                                  tasks'[i].kind = "breakTick" /\ tasks'[i].left = 1
                             /\ IF room.playTrivia
                                THEN /\ \A p \in Range(after.participants) : p.score = 0
                                     /\ after.currentQuestionIndex = -1
                                     /\ after.pendingAnswers = <<>>
                                     /\ ~after.triviaPaused
                                     /\ Emitted(events', "score-update", r)
                                ELSE Emitted(events', "trivia-disabled", r)
                        ELSE /\ after.currentMode = "study"
                             /\ after.timerValue = room.settings.studyTime
                             /\ PhaseTicks(tasks', r) = {}
                             /\ ~after.triviaPaused
                             /\ after.inactivityCount = 0
                             /\ Emitted(events', "trivia-session-ended", r)
             /\ \A i \in PhaseTicks(tasks, r) :
                  ((StudyTick(i) \/ BreakTick(i)) /\ after # NoRoom
                   /\ after.currentMode # room.currentMode)
                  => /\ [after EXCEPT !.timerInterval = FALSE] = Skipped(r).ar[r]
                     /\ tasks' = Skipped(r).tk
    ]_vars

\* skip-timer of the host has ended a Break whose countdown was running
C14_Witness ==
  /\ control = "skip"
  /\ Registered("R1")
  /\ activeRooms["R1"].currentMode = "study"
  /\ Emitted(events, "trivia-session-ended", "R1")

----------------------------------------------------------------------------
\* Rooms whose durations come from the create-room message (SpecSettings)

\* the studyTime values of the create-room messages: the form's and zero
StudyTimes == {0, 2}

NextSettings ==
  \/ GenIdle /\ Tick
  \/ BreakCallbacks
  \/ \E i \in DOMAIN tasks : StudyTick(i)
  \/ \E s \in {"s1", "s2"} : Connect(s)
  \/ \E studyTime \in StudyTimes :
       Fresh("R1") /\ CreateRoom("s1", "R1", TRUE, 1, "General Knowledge", "medium",
                                 [studyTime |-> studyTime, breakTime |-> 4])
  \/ ~InRoom("s2", "R1") /\ JoinRoom("s2", "R1")
  \/ StartTimer("s1", "R1")
  \/ PauseTimer("s1", "R1")
  \/ Len(tasks) < MaxCallbacks /\ SkipTimer("s1", "R1")

SpecSettings == Init /\ [][NextSettings]_vars

\* the countdown values that the step has broadcast to the room
TimeLeftSent(evs, r) ==
  {evs[j].val.timeLeft : j \in {k \in DOMAIN evs : evs[k].type = "timer-update" /\ evs[k].room = r}}

\* C15: every room is in Study or in Break, its stored timerValue is never
\* negative, and no timer-update carries a negative timeLeft.
C15_TimeNeverNegative ==
  \A r \in RoomIds :
    Registered(r)
    => /\ activeRooms[r].currentMode \in {"study", "trivia"}
       /\ activeRooms[r].timerValue >= 0
       /\ \A t \in TimeLeftSent(events, r) : t >= 0

----------------------------------------------------------------------------
\* Claims about the end of a Study phase and the rounds of a Break (SpecTimer)

\* C16: each run of the study countdown takes one second off timerValue and
\* the run that reaches zero puts the room into Break and broadcasts
\* mode-changed, so a countdown of N seconds flips after N runs; in a room that
\* plays trivia and has had no round yet that same step broadcasts
\* trivia-loading and no new-question, and a new-question is only ever sent to
\* a room whose first round has been announced in an earlier step.
C16_StudyEndsInAnnouncedBreak ==
  [][\A r \in RoomIds :
       (Registered(r) /\ activeRooms'[r] # NoRoom)
       => LET room == activeRooms[r]
              after == activeRooms'[r]
          IN /\ \A i \in PhaseTicks(tasks, r) :
                  StudyTick(i)
                  => IF room.timerValue > 1
                     THEN /\ after.currentMode = "study"
                          /\ after.timerValue = room.timerValue - 1
                          /\ ~Emitted(events', "mode-changed", r)
                     ELSE /\ after.currentMode = "trivia"
                          /\ \E j \in DOMAIN events' :
                               events'[j] = Ev("mode-changed", r, "trivia")
                          /\ (room.playTrivia /\ ~room.hasHadFirstTriviaRound)
                             => /\ \E j \in DOMAIN events' :
                                     events'[j] = Ev("trivia-loading", r, TRUE)
                                /\ ~Emitted(events', "new-question", r)
                                /\ asked'[r] = <<>>
             /\ Emitted(events', "new-question", r) => room.hasHadFirstTriviaRound
    ]_vars

\* the study countdown has just reached zero in a room that had had no round
C16_Witness ==
  /\ control = "none"
  /\ Registered("R1")
  /\ activeRooms["R1"].currentMode = "trivia"
  /\ activeRooms["R1"].playTrivia
  /\ Emitted(events, "mode-changed", "R1")
  /\ Emitted(events, "trivia-loading", "R1")

----------------------------------------------------------------------------
\* Answers of the generation service (SpecFallback)

\* the request fails (network, unparsable answer, no array in it): the catch
\* of generateTriviaQuestions returns the pool of the difficulty
Failed == [ok |-> FALSE, correct |-> <<>>]

\* the service answers {"questions": []}
Empty == [ok |-> TRUE, correct |-> <<>>]

Outcomes == {Answered, Failed, Empty}

\* options.length of the questions of getFallbackTriviaQuestions(difficulty)
FallbackOptions(difficulty) == <<4, 4, 4, 4, 4>>

\* One room and its host, one second per question and a Break of 6: the first
\* round begins at skip-timer, later rounds with select-topic, and the service
\* answers each request in one of the three ways.
NextFallback ==
  \/ GenIdle /\ Tick
  \/ \E i \in DOMAIN tasks : BreakTick(i)
  \/ \E i \in DOMAIN tasks : QuestionTick(i)
  \/ \E i \in DOMAIN tasks : NextTimeout(i)
  \/ \E i \in DOMAIN tasks : PrefetchTimeout(i)
  \/ \E i \in DOMAIN tasks, outcome \in Outcomes : GenerationDone(i, outcome)
  \/ Connect("s1")
  \/ \E difficulty \in {"easy", "medium", "hard"} :
       Fresh("R1") /\ CreateRoom("s1", "R1", TRUE, 1, "General Knowledge", difficulty,
                                 [studyTime |-> 2, breakTime |-> 6])
  \/ InStudy("R1") /\ SkipTimer("s1", "R1")
  \/ Chains("R1") = 0 /\ SelectTopic("s1", "R1", "Math", "hard", 2)

SpecFallback == Init /\ [][NextFallback]_vars

\* C17: when the generation of the first round or of select-topic fails or
\* brings nothing, the room goes on with exactly 5 questions of the fallback
\* pool, each with 4 options, a correctIndex in 0..3 and the room's
\* triviaTimeLimit, and with the events and callbacks of a successful
\* generation: trivia-loading false and nextTriviaQuestion 2 s later.
C17_FailureUsesFallbackPool ==
  [][\A i \in DOMAIN tasks, outcome \in {Failed, Empty} :
       (/\ tasks[i].kind \in {"genStart", "genSelect"}
        /\ GenerationDone(i, outcome)
        /\ activeRooms'[tasks[i].room] # NoRoom)
       => LET r == tasks[i].room
              after == activeRooms'[r]
              success == questionsReady([Ctx EXCEPT !.tk = Without(@, i)], r,
                                        generateTriviaQuestions(uuidv4(activeRooms),
                                                                tasks[i].arg.topic,
                                                                tasks[i].arg.difficulty,
                                                                Answered),
                                        tasks[i].kind = "genStart", tasks[i].arg.gone)
          IN /\ Len(after.triviaQuestions) = 5
             /\ \A q \in Range(after.triviaQuestions) :
                  /\ q.src = "fallback"
                  /\ q.correctIndex \in 0..3
                  /\ q.timeLimit = after.triviaTimeLimit
             /\ \A n \in Range(FallbackOptions(tasks[i].arg.difficulty)) : n = 4
             /\ Len(FallbackOptions(tasks[i].arg.difficulty)) = 5
             /\ events' = success.ev
             /\ tasks' = success.tk
    ]_vars

----------------------------------------------------------------------------
\* Claims about the batches of a Break (SpecRoundTrip)

\* the step has swapped the prefetched batch in
Swapped(r) ==
  /\ Registered(r)
  /\ activeRooms'[r] # NoRoom
  /\ Len(activeRooms[r].nextBatchQuestions) > 0
  /\ activeRooms'[r].nextBatchQuestions = <<>>
  /\ activeRooms'[r].triviaQuestions = activeRooms[r].nextBatchQuestions

\* C18: the call of nextTriviaQuestion that swaps the prefetched batch in
\* leaves currentQuestionIndex at 0, and the question it sends is the first
\* of that batch.
C18_SwapShowsFirstOfNextBatch ==
  [][\A r \in RoomIds :
       Swapped(r)
       => /\ activeRooms'[r].currentQuestionIndex = 0
          /\ \A j \in DOMAIN events' :
               (events'[j].type = "new-question" /\ events'[j].room = r)
               => events'[j].val.id = activeRooms[r].nextBatchQuestions[1].id
    ]_vars

----------------------------------------------------------------------------
\* Claims about the end of a session (SpecTopic)

\* C19: once endTriviaSession has run and the room is back in Study, no
\* question-timer and no question-ended is sent to the room and no
\* participant's score changes until the next Break begins.
C19_NothingAfterSessionEnd ==
  [][\A r \in RoomIds :
       (/\ Registered(r)
        /\ activeRooms'[r] # NoRoom
        /\ activeRooms[r].currentMode = "study")
       => /\ ~Emitted(events', "question-timer", r)
          /\ ~Emitted(events', "question-ended", r)
          /\ activeRooms'[r].currentMode = "study"
             => \A p \in Range(activeRooms[r].participants),
                   q \in Range(activeRooms'[r].participants) :
                  p.id = q.id => q.score = p.score
    ]_vars

----------------------------------------------------------------------------
\* Claims about the results summary (SpecScoring)

\* the trivia-session-ended events of the step
Summaries(r) ==
  {events[j].val : j \in {k \in DOMAIN events :
                            events[k].type = "trivia-session-ended" /\ events[k].room = r}}

\* C20: the winner of a trivia-session-ended is a participant of the room
\* whose score no participant exceeds and that stands before every other
\* participant of that score in room.participants, and allScores lists every
\* participant with its score, in the order of room.participants.
C20_WinnerIsFirstOfTheBest ==
  \A r \in RoomIds :
    Registered(r)
    => \A summary \in Summaries(r) :
         LET ps == activeRooms[r].participants
         IN /\ \E i \in DOMAIN ps :
                 /\ ps[i].id = summary.winner
                 /\ \A k \in DOMAIN ps : ps[k].score <= ps[i].score
                 /\ \A k \in 1..(i - 1) : ps[k].score < ps[i].score
            /\ Len(summary.allScores) = Len(ps)
            /\ \A k \in DOMAIN ps :
                 /\ summary.allScores[k].id = ps[k].id
                 /\ summary.allScores[k].score = ps[k].score

\* a session has ended with both participants on the same score above zero
C20_Witness ==
  /\ Registered("R1")
  /\ Summaries("R1") # {}
  /\ Len(activeRooms["R1"].participants) = 2
  /\ activeRooms["R1"].participants[1].score > 0
  /\ activeRooms["R1"].participants[2].score = activeRooms["R1"].participants[1].score

\* a session has ended with the participant that joined later ahead
C20_LaterJoinerWins ==
  /\ Registered("R1")
  /\ Len(activeRooms["R1"].participants) = 2
  /\ \E summary \in Summaries("R1") : summary.winner = activeRooms["R1"].participants[2].id
  /\ activeRooms["R1"].participants[2].score > activeRooms["R1"].participants[1].score

----------------------------------------------------------------------------
\* Claims about the sequencing of questions (Spec)

\* the callbacks of the room that generate, time or advance questions
TriviaTasks(tk, r) ==
  {i \in DOMAIN tk : tk[i].room = r
                     /\ tk[i].kind \in {"genBackground", "questionTick", "nextTimeout"}}

\* C21: a call of nextTriviaQuestion in a Break whose deadline has passed ends
\* the session (trivia-session-ended) and puts the room into Study with the
\* study duration; it requests no batch, touches neither triviaQuestions nor
\* nextBatchQuestions, does not pause, sends no question and starts no
\* countdown, whatever the index, the next batch, the pause and the count of
\* silent questions are.
C21_DeadlineComesFirst ==
  [][\A i \in DOMAIN tasks :
       LET r == tasks[i].room
           room == activeRooms[r]
           after == activeRooms'[r]
       IN (/\ NextTimeout(i) \/ ResumeTimeout(i)
           /\ room # NoRoom
           /\ room.currentMode = "trivia"
           /\ DeadlinePassed(room))
          => /\ after # NoRoom
             /\ after.currentMode = "study"
             /\ after.timerValue = room.settings.studyTime
             /\ Emitted(events', "trivia-session-ended", r)
             /\ ~Emitted(events', "new-question", r)
             /\ ~after.triviaPaused
             /\ after.nextBatchQuestions = room.nextBatchQuestions
             /\ after.isRegeneratingQuestions = room.isRegeneratingQuestions
             /\ NextTimeout(i) => /\ after.triviaQuestions = room.triviaQuestions
                                  /\ after.currentQuestionIndex = room.currentQuestionIndex
             /\ Cardinality(TriviaTasks(tasks', r))
                  = Cardinality(TriviaTasks(tasks, r) \ {i})
    ]_vars

\* nextTriviaQuestion has ended a Break past its deadline with a prefetched
\* batch waiting
C21_Witness ==
  /\ Registered("R1")
  /\ activeRooms["R1"].currentMode = "study"
  /\ Len(events) > 0
  /\ events[1] = Ev("trivia-message", "R1", "break over")
  /\ Len(activeRooms["R1"].nextBatchQuestions) > 0

----------------------------------------------------------------------------
\* Claims about the registry (SpecRegistry)

\* C22: create-room registers the room under an id that no active room has
\* and leaves every other room as it was; the new room has its creator as
\* only participant and host, is in Study and holds the study duration with
\* the timer stopped.
C22_CreateRoomIsFresh ==
  [][\A s \in Sockets, r \in RoomIds :
       CreateRoom(s, r, TRUE, 10, "General Knowledge", "medium", DefaultSettings)
       => /\ ~Registered(r)
          /\ \A x \in RoomIds \ {r} : activeRooms'[x] = activeRooms[x]
          /\ activeRooms'[r] # NoRoom
          /\ activeRooms'[r].participants = <<[id |-> s, isHost |-> TRUE, score |-> 0]>>
          /\ activeRooms'[r].host = s
          /\ activeRooms'[r].currentMode = "study"
          /\ ~activeRooms'[r].timerRunning
          /\ activeRooms'[r].timerValue = DefaultSettings.studyTime
    ]_vars

\* the callbacks of the room, in the order in which they were scheduled
TasksOf(tk, r) == SelectSeq(tk, LAMBDA t : t.room = r)

\* C23: a disconnect leaves every room that lists the connection as leave-room
\* of that connection would leave it (participants, host, registration,
\* cleared intervals), and leaves every other room as it was.
C23_DisconnectIsLeaveRoom ==
  [][\A s \in Sockets, r \in RoomIds :
       (Registered(r) /\ Disconnect(s))
       => IF InRoom(s, r)
          THEN /\ activeRooms'[r] = leaveRoom(Ctx, s, r).ar[r]
               /\ TasksOf(tasks', r) = TasksOf(leaveRoom(Ctx, s, r).tk, r)
          ELSE /\ activeRooms'[r] = activeRooms[r]
               /\ TasksOf(tasks', r) = TasksOf(tasks, r)
    ]_vars

---------------------------------------------------------------------------
(* A room created with trivia switched off (SpecBreakOnly) *)

\* One room and its host with playTrivia false, one second per question and a
\* Break of 6: the host skips the Study timer, chooses a topic when no question
\* is on its way, and submits one answer per question.
NextBreakOnly ==
  \/ GenIdle /\ Tick
  \/ BreakCallbacks
  \/ Connect("s1")
  \/ Fresh("R1") /\ CreateRoom("s1", "R1", FALSE, 1, "General Knowledge", "medium",
                               [studyTime |-> 2, breakTime |-> 6])
  \/ InStudy("R1") /\ Len(tasks) < MaxCallbacks /\ SkipTimer("s1", "R1")
  \/ Chains("R1") = 0 /\ SelectTopic("s1", "R1", "Math", "medium", 1)
  \/ \E q \in CurrentId("R1") \cup {NoQuestion} :
       /\ Registered("R1") /\ ~HasAnswered("s1", "R1")
       /\ SubmitAnswer("s1", "R1", q, 0, 1)

SpecBreakOnly == Init /\ [][NextBreakOnly]_vars

\* the requests for questions and the countdowns of questions
TriviaActivity == {"genStart", "genSelect", "genBackground", "questionTick"}

\* C24: in the Break of a room whose trivia is switched off no request for
\* questions (first round, select-topic or prefetch) is outstanding, no
\* countdown of a question runs and neither a question nor a countdown value
\* is sent, whatever select-topic or submit-answer messages arrive.
C24_BreakOnlyHasNoTrivia ==
  \A r \in RoomIds :
    (Registered(r) /\ ~activeRooms[r].playTrivia /\ activeRooms[r].currentMode = "trivia")
    => /\ \A i \in DOMAIN tasks : tasks[i].room = r => tasks[i].kind \notin TriviaActivity
       /\ ~Emitted(events, "new-question", r)
       /\ ~Emitted(events, "question-timer", r)

---------------------------------------------------------------------------
(* Rooms torn down while a request for questions is outstanding (SpecTeardown) *)

\* One connection and the room id R1, one second per question and a Break of
\* 6: the connection creates the room when no room has the id, skips the Study
\* timer, leaves or disconnects, and the generation service answers after any
\* time, also after the room has been deleted and another has been registered
\* under the id.
NextTeardown ==
  \/ Tick
  \/ BreakCallbacks
  \/ Connect("s1")
  \/ /\ ~Registered("R1") /\ Len(tasks) < MaxCallbacks
     /\ CreateRoom("s1", "R1", TRUE, 1, "General Knowledge", "medium",
                   [studyTime |-> 2, breakTime |-> 6])
  \/ InStudy("R1") /\ Len(tasks) < MaxCallbacks /\ SkipTimer("s1", "R1")
  \/ InRoom("s1", "R1") /\ LeaveRoom("s1", "R1")
  \/ InRoom("s1", "R1") /\ Disconnect("s1")

SpecTeardown == Init /\ [][NextTeardown]_vars

\* C25: the result of a prefetch whose room was torn down while the request was
\* outstanding changes no registered room (it becomes the next batch of none),
\* sends nothing and schedules nothing, also when another room has been
\* registered under the id since.
C25_LateBatchIsDiscarded ==
  [][\A i \in DOMAIN tasks :
       (tasks[i].kind = "genBackground" /\ tasks[i].arg.gone /\ GenerationDone(i, Answered))
       => /\ activeRooms' = activeRooms
          /\ events' = <<>>
          /\ tasks' = Without(tasks, i)
    ]_vars

\* a prefetch is outstanding whose room was torn down, and another room is
\* registered under its id
C25_Witness ==
  /\ Registered("R1")
  /\ \E i \in DOMAIN tasks :
       tasks[i].kind = "genBackground" /\ tasks[i].room = "R1" /\ tasks[i].arg.gone

---------------------------------------------------------------------------
(* What a participant is sent of a room (SpecSnapshot) *)

\* get-room: callback(room), the registered object or undefined
getRoom(c, s, roomId) == Emit(c, Ev("get-room-reply", roomId, c.ar[roomId]))

GetRoom(s, roomId) ==
  /\ connected[s] = "open"
  /\ Commit(getRoom(Ctx, s, roomId))
  /\ UNCHANGED connected

\* The host s1 and a second connection s2, one second per question and a Break
\* of 6: s2 joins and leaves at any time and either connection asks for the
\* room.
NextSnapshot ==
  \/ GenIdle /\ Tick
  \/ BreakCallbacks
  \/ \E s \in {"s1", "s2"} : Connect(s)
  \/ Fresh("R1") /\ CreateRoom("s1", "R1", TRUE, 1, "General Knowledge", "medium",
                               [studyTime |-> 2, breakTime |-> 6])
  \/ InStudy("R1") /\ Len(tasks) < MaxCallbacks /\ SkipTimer("s1", "R1")
  \/ Registered("R1") /\ ~InRoom("s2", "R1") /\ JoinRoom("s2", "R1")
  \/ InRoom("s2", "R1") /\ LeaveRoom("s2", "R1")
  \/ \E s \in {"s1", "s2"} : GetRoom(s, "R1")

SpecSnapshot == Init /\ [][NextSnapshot]_vars

\* the questions of the batch that come after the one at currentQuestionIndex:
\* none of them has been shown, so none has had its question-ended
Later(room) ==
  {j \in DOMAIN room.triviaQuestions : j > room.currentQuestionIndex + 1}

\* C26: nothing sent to a participant carries the correctIndex of a question
\* whose countdown has not expired: new-question carries null in its place, and
\* the room sent by room-updated (join, leave) and by the get-room reply holds
\* no question that is still to come, neither in the batch in play nor in the
\* next one.
C26_KeyIsWithheld ==
  \A j \in DOMAIN events :
    LET e == events[j] IN
    /\ e.type = "new-question" => e.val.correctIndex = NULL
    /\ (e.type \in {"room-updated", "get-room-reply"} /\ e.val # NoRoom)
       => Later(e.val) = {} /\ e.val.nextBatchQuestions = <<>>

---------------------------------------------------------------------------
(* The end of the Break (SpecBreakEnds) *)

InBreak(roomId) ==
  activeRooms[roomId] # NoRoom /\ activeRooms[roomId].currentMode = "trivia"

\* One room and its host, with trivia or without, one second per question and
\* a Break of 4: the host starts the timer in either mode, skips the Study
\* timer and chooses a topic in the Break; the timer is not paused and the room
\* is not torn down.
NextBreakEnds ==
  \/ GenIdle /\ Tick
  \/ BreakCallbacks
  \/ \E i \in DOMAIN tasks : StudyTick(i)
  \/ Connect("s1")
  \/ \E playTrivia \in BOOLEAN :
       Fresh("R1") /\ CreateRoom("s1", "R1", playTrivia, 1, "General Knowledge", "medium",
                                 [studyTime |-> 2, breakTime |-> 4])
  \/ Registered("R1") /\ StartTimer("s1", "R1")
  \/ InStudy("R1") /\ Len(tasks) < MaxCallbacks /\ SkipTimer("s1", "R1")
  \/ InBreak("R1") /\ Chains("R1") = 0 /\ SelectTopic("s1", "R1", "Math", "medium", 1)

\* the event loop runs every callback that is due, the generation service
\* answers, and the clock goes on
Scheduling ==
  /\ WF_vars(GenIdle /\ Tick)
  /\ WF_vars(\E i \in DOMAIN tasks : BreakTick(i))
  /\ WF_vars(\E i \in DOMAIN tasks : QuestionTick(i))
  /\ WF_vars(\E i \in DOMAIN tasks : NextTimeout(i))
  /\ WF_vars(\E i \in DOMAIN tasks : PrefetchTimeout(i))
  /\ WF_vars(\E i \in DOMAIN tasks : GenerationDone(i, Answered))
  /\ WF_vars(\E i \in DOMAIN tasks : StudyTick(i))

SpecBreakEnds == Init /\ [][NextBreakEnds]_vars /\ Scheduling

\* C27: a room that is in Break with its Break interval running and is not
\* paused again comes back to Study with the Study duration on its timer (or
\* is torn down), whatever the state of its trivia.
C27_BreakEnds ==
  (InBreak("R1") /\ activeRooms["R1"].breakTimerInterval)
  ~> (\/ ~Registered("R1")
      \/ InStudy("R1") /\ activeRooms["R1"].timerValue = activeRooms["R1"].settings.studyTime)

---------------------------------------------------------------------------
(* Claims about the question on display (Spec, SpecTopic) *)

\* C28: while the trivia of a room is paused for inactivity no countdown of a
\* question runs for the room.
C28_PausedMeansNoCountdown ==
  \A r \in RoomIds :
    (Registered(r) /\ activeRooms[r].triviaPaused) => ~Timed(r)

\* C29: while the countdown of a question runs, currentQuestionIndex is an
\* index of triviaQuestions and the question there is the one the countdown was
\* started for (the one new-question announced), so that the expiry resolves
\* that question.
C29_ActiveQuestionIsCurrent ==
  \A i \in DOMAIN tasks :
    (tasks[i].kind = "questionTick" /\ Registered(tasks[i].room))
    => LET room == activeRooms[tasks[i].room] IN
       /\ room.currentQuestionIndex >= 0
       /\ room.currentQuestionIndex < Len(room.triviaQuestions)
       /\ room.triviaQuestions[room.currentQuestionIndex + 1].id = tasks[i].arg

---------------------------------------------------------------------------
(* The participant list (SpecRegistry) *)

\* C30: no room lists a connection twice: the entries of room.participants
\* have pairwise different ids.
C30_ParticipantsAreUnique ==
  \A r \in RoomIds :
    Registered(r)
    => \A i, j \in DOMAIN activeRooms[r].participants :
         activeRooms[r].participants[i].id = activeRooms[r].participants[j].id => i = j

---------------------------------------------------------------------------
(* Answers with any timeRemaining (SpecAnswers) *)

\* the timeRemaining values of the submit-answer messages: below zero, within
\* the time limit of 2, and beyond it
TimesRemaining == {-1, 1, 2, 5}

\* One room and its host, two seconds per question and a Break of 6: while a
\* question is being timed the host submits answers for it, right (0) or wrong
\* (1), with any of the timeRemaining values, up to MaxPending per question.
NextAnswers ==
  \/ GenIdle /\ Tick
  \/ BreakCallbacks
  \/ Connect("s1")
  \/ Fresh("R1") /\ CreateRoom("s1", "R1", TRUE, 2, "General Knowledge", "medium",
                               [studyTime |-> 2, breakTime |-> 6])
  \/ InStudy("R1") /\ Len(tasks) < MaxCallbacks /\ SkipTimer("s1", "R1")
  \/ \E q \in CurrentId("R1"), a \in {0, 1}, t \in TimesRemaining :
       Timed("R1") /\ SubmitAnswer("s1", "R1", q, a, t)

SpecAnswers == Init /\ [][NextAnswers]_vars

\* C31: the score of every participant of every room is an integer that is
\* not negative, whatever answerIndex and timeRemaining were submitted.
C31_ScoresAreNatural ==
  \A r \in RoomIds :
    Registered(r) => \A p \in Range(activeRooms[r].participants) : p.score \in Nat

\* C40: the resolution of a question raises the score of a participant by at
\* least 0 and at most 20, whatever submit-answer messages came in for the
\* question.
C40_AtMostTwentyPerQuestion ==
  [][\A i \in DOMAIN tasks :
       (QuestionTick(i) /\ Registered(tasks[i].room) /\ activeRooms'[tasks[i].room] # NoRoom)
       => LET before == activeRooms[tasks[i].room].participants
              after == activeRooms'[tasks[i].room].participants
          IN \A k \in DOMAIN before :
               k \in DOMAIN after /\ after[k].score - before[k].score \in 0..20
    ]_vars

---------------------------------------------------------------------------
(* Claims about the beginning of a Break (SpecBreakOnly, SpecTopic) *)

\* the step takes the room from Study into Break: startTriviaSession has run
SessionStarts(r) ==
  /\ InStudy(r)
  /\ activeRooms'[r] # NoRoom
  /\ activeRooms'[r].currentMode = "trivia"

\* C32: every step that begins a Break, in a room with trivia or without,
\* leaves the deadline one Break away, every score at 0 with a score-update
\* sent, and the trivia fields cleared: index -1, no pending answers, not
\* paused, no inactivity counted.
C32_SessionStartResets ==
  [][\A r \in RoomIds :
       SessionStarts(r)
       => LET after == activeRooms'[r] IN
          /\ after.breakEndTime = after.settings.breakTime
          /\ \A p \in Range(after.participants) : p.score = 0
          /\ Emitted(events', "score-update", r)
          /\ after.currentQuestionIndex = -1
          /\ after.pendingAnswers = <<>>
          /\ ~after.triviaPaused
          /\ after.inactivityCount = 0
    ]_vars

---------------------------------------------------------------------------
(* Breaks after the first round, with no topic chosen (SpecPrompt) *)

\* One room and its host, one second per question and a Break of 6: the host
\* skips the timer in either mode, so that Breaks follow each other while
\* callbacks of the earlier one are pending; select-topic is never sent. The
\* event loop runs the callbacks that are due (Scheduling).
NextPrompt ==
  \/ GenIdle /\ Tick
  \/ BreakCallbacks
  \/ Connect("s1")
  \/ Fresh("R1") /\ CreateRoom("s1", "R1", TRUE, 1, "General Knowledge", "medium",
                               [studyTime |-> 2, breakTime |-> 6])
  \/ Registered("R1") /\ Len(tasks) < MaxCallbacks /\ SkipTimer("s1", "R1")

SpecPrompt == Init /\ [][NextPrompt]_vars /\ Scheduling

\* C33: once the room has been sent the topic prompt (a Break after its first
\* round has begun) no question is sent to it for as long as no select-topic
\* is sent, whatever callbacks of earlier Breaks are pending.
C33_NoQuestionBeforeTopic ==
  [](Emitted(events, "select-category", "R1")
       => [](~Emitted(events, "new-question", "R1")))

---------------------------------------------------------------------------
(* Claims about the order and the number of questions (Spec, SpecTopic) *)

\* C34: a call of nextTriviaQuestion that sends a question while the batch is
\* not exhausted (currentQuestionIndex below the last index, -1 included)
\* sends the question one index further, of the same batch.
C34_QuestionsInBatchOrder ==
  [][\A i \in DOMAIN tasks :
       LET r == tasks[i].room
           room == activeRooms[r]
           after == activeRooms'[r]
       IN (/\ NextTimeout(i)
           /\ room # NoRoom
           /\ Emitted(events', "new-question", r)
           /\ room.currentQuestionIndex < Len(room.triviaQuestions) - 1)
          => /\ after.currentQuestionIndex = room.currentQuestionIndex + 1
             /\ after.triviaQuestions = room.triviaQuestions
    ]_vars

\* the countdowns of questions that run for the room
Countdowns(r) ==
  {i \in DOMAIN tasks : tasks[i].kind = "questionTick" /\ tasks[i].room = r}

\* C35: a room has at most one countdown of a question running, and at most
\* one pending callback (countdown, reveal-delay or resume timeout, generation
\* for the first round or for select-topic) that goes on to a question.
C35_OneChainPerRoom ==
  \A r \in RoomIds :
    /\ Cardinality(Countdowns(r)) <= 1
    /\ Chains(r) <= 1

---------------------------------------------------------------------------
(* Claims about the timer controls in the Break (SpecTimer) *)

\* C36: start-timer of the host while the Break interval runs leaves the room
\* with at most the remaining Break time it had.
C36_StartNeverLengthensBreak ==
  [][\A s \in Sockets, r \in RoomIds :
       (/\ StartTimer(s, r)
        /\ InBreak(r)
        /\ activeRooms[r].host = s
        /\ activeRooms[r].breakTimerInterval)
       => RemainingBreak(activeRooms'[r]) <= RemainingBreak(activeRooms[r])
    ]_vars

\* the host has paused the Break of the room: mode trivia, the timer stopped and
\* no phase interval scheduled
BreakPaused(r) ==
  /\ InBreak(r)
  /\ ~activeRooms[r].timerRunning
  /\ PhaseTicks(tasks, r) = {}

\* C37: while the Break is paused, no step other than a timer control (no tick,
\* no question expiry, no reveal-delay callback, no generation result) takes
\* the room out of mode trivia or changes the remaining seconds it has stored.
C37_PausedBreakStays ==
  [][\A r \in RoomIds :
       (BreakPaused(r) /\ control' = "none" /\ activeRooms'[r] # NoRoom)
       => /\ activeRooms'[r].currentMode = "trivia"
          /\ activeRooms'[r].timerValue = activeRooms[r].timerValue
    ]_vars

---------------------------------------------------------------------------
(* A topic chosen during the first round (SpecSelect) *)

\* One room and its host in a Break of 40 seconds that begins with the first
\* round (General Knowledge, 1 second per question); the host answers every
\* question and chooses the topic Math with 2 seconds per question, once, while
\* a question is shown. A generation request may take any time.
NextSelect ==
  \/ /\ Timed("R1") => HasAnswered("s1", "R1")
     /\ Tick
  \/ BreakCallbacks
  \/ Connect("s1")
  \/ Fresh("R1") /\ CreateRoom("s1", "R1", TRUE, 1, "General Knowledge", "medium",
                               [studyTime |-> 2, breakTime |-> 40])
  \/ InStudy("R1") /\ SkipTimer("s1", "R1")
  \/ /\ Timed("R1") /\ activeRooms["R1"].triviaCategory # "Math"
     /\ SelectTopic("s1", "R1", "Math", "medium", 2)
  \/ \E q \in CurrentId("R1") :
       /\ Timed("R1") /\ ~HasAnswered("s1", "R1")
       /\ SubmitAnswer("s1", "R1", q, 0, 1)

SpecSelect == Init /\ [][NextSelect]_vars

\* a request of select-topic or of the first round is waiting for its questions
Selecting(tk, r) ==
  \E i \in DOMAIN tk : tk[i].room = r /\ tk[i].kind \in {"genSelect", "genStart"}

\* C38: once the questions of select-topic have arrived, every question that is
\* shown is one of a batch generated for the topic the room has selected and
\* carries the time limit the room has selected.
C38_QuestionsOfSelectedTopic ==
  [][\A r \in RoomIds :
       (/\ Registered(r) /\ activeRooms'[r] # NoRoom
        /\ Emitted(events', "new-question", r)
        /\ ~Selecting(tasks', r))
       => LET after == activeRooms'[r]
              shown == after.triviaQuestions[after.currentQuestionIndex + 1]
          IN /\ shown.topic = after.triviaCategory
             /\ shown.timeLimit = after.triviaTimeLimit
    ]_vars

---------------------------------------------------------------------------
(* The running flag and the phase countdowns (SpecTimer) *)

\* C39: in every state a room's timerRunning flag is set exactly when a phase
\* countdown, the Study interval or the Break interval, is scheduled for it.
C39_RunningFlagMatchesCountdown ==
  \A r \in RoomIds :
    Registered(r) => (activeRooms[r].timerRunning <=> PhaseTicks(tasks, r) # {})

====
